---- MODULE Spec2Model ----
(***************************************************************************)
(* The chat orchestration workflow of the Wisconsin DOR chatbot: the Step  *)
(* Functions state machine "ChatStreamingStateMachine" declared by         *)
(* MessagesStack, the Lambda stages it invokes and the messages those      *)
(* stages push to the client.                                              *)
(*                                                                         *)
(* The repository holds two definitions of MessagesStack:                  *)
(*   "parallel" - resource streaming and response streaming are two        *)
(*                Lambda tasks run as the branches of an sfn.Parallel;     *)
(*   "single"   - one streaming Lambda pushes the resources and then       *)
(*                streams the answer.                                      *)
(* The variable stack says which definition is deployed.                   *)
(*                                                                         *)
(* The Lambda handlers are Python and are modelled from the specification  *)
(* (sections 4.1 - 4.3, 7); the state machine is modelled from the CDK     *)
(* code.                                                                   *)
(***************************************************************************)
EXTENDS Integers, Sequences, FiniteSets, TLC

VARIABLES
    stack,      \* which MessagesStack definition is deployed
    event,      \* the ChatMessageReceived event that started the execution
    ctx,        \* per flow of control (main, branch 0, branch 1): state, data, st
    lam,        \* per Lambda function: the running invocation
    trace,      \* history: Lambda invocations and returns, in order
    pushed,     \* history: every push attempt, in emission order, delivered or not
    faults,     \* history: the kinds of fault that have occurred
    visited,    \* history: the states of the state machine entered so far
    sessionsTable,  \* the items of the DynamoDB table SessionTable
    connections,    \* per WebSocket connection of the API: its session, state, owner
    hook,           \* the state of the client's useValidatedWebSocket hook
    chat            \* the client's useWebSocketChat hook and its chat store

vars == <<stack, event, ctx, lam, trace, pushed, faults, visited,
          sessionsTable, connections, hook, chat>>

\* what the workflow leaves alone: the session service and the client
outsideWorkflow == <<sessionsTable, connections, hook, chat>>

\* what the session service and the client leave alone: the workflow
workflowVars == <<stack, event, ctx, lam, trace, pushed, faults, visited>>

----------------------------------------------------------------------------
(* Bounds *)

MaxFragments == 2      \* chunks the generative model emits at most
MaxDocs == 1           \* documents the retrieval index returns at most
MaxMessages == 2       \* payloads the client's socket receives at most
MaxConnections == 2    \* WebSocket connections made to the API at most
MaxSends == 2          \* messages the user sends at most
MaxHandled == 3        \* messages the chat's message handler is given at most
MaxStoreCalls == 3     \* direct calls of the chat store's actions at most

----------------------------------------------------------------------------
(* Values *)

Stacks == {"parallel", "single"}
QueryIds == {"q1"}
SessionIds == {"s1"}

\* JSON null
Null == "null"
\* a job that is null / absent from a result
NoJob == [type |-> Null]

\* query_class values a ClassifierResult can carry: the two classes, null,
\* and a string that is neither
QueryClasses == {"faq", "rag", Null, "FAQ"}

\* Outcomes of one send on the push channel
DeliveryErrors == {"NoActiveConnection", "TransientSendFailure", "HandleStale"}
DeliveryOutcomes == {"delivered"} \cup DeliveryErrors

Contexts == {"main", "b0", "b1"}
Functions == {"Classifier", "Retrieval", "Streaming", "ResourceStreaming"}

----------------------------------------------------------------------------
(* The state machine definition *)

ClassifierTask == "Classifier"
RetrievalTaskRag == "Retrieval"
StreamingTaskFaq == "Streaming"
StreamingTaskRag == "Streaming"
ResourceStreamingTaskFaq == "ResourceStreaming"
ResourceStreamingTaskRag == "ResourceStreaming"

\* Task states: the Lambda function each invokes (outputPath '$.Payload')
TaskFunction(s) ==
    CASE s = "ClassifierTask" -> ClassifierTask
      [] s = "RetrievalTaskRag" -> RetrievalTaskRag
      [] s = "StreamingTaskFaq" -> StreamingTaskFaq
      [] s = "StreamingTaskRag" -> StreamingTaskRag
      [] s = "ResourceStreamingTaskFaq" -> ResourceStreamingTaskFaq
      [] s = "ResourceStreamingTaskRag" -> ResourceStreamingTaskRag

TaskStates == {"ClassifierTask", "RetrievalTaskRag", "StreamingTaskFaq",
               "StreamingTaskRag", "ResourceStreamingTaskFaq",
               "ResourceStreamingTaskRag"}

\* Pass states with parameters {'job.$': '$.<field>'} and outputPath '$.job'
selectResourceStreamingJobFaq == "stream_documents_job"
selectGenerateResponseJobFaq == "generate_response_job"
selectResourceStreamingJobRag == "stream_documents_job"
\* as selectGenerateResponseJobRag, selecting the other job of the result
selectGenerateResponseJobRag_OtherJob == "stream_documents_job"
selectGenerateResponseJobRag == "generate_response_job"
selectRetrieveJob == "retrieve_job"

SelectField(s) ==
    CASE s = "SelectResourceStreamingJobFaq" -> selectResourceStreamingJobFaq
      [] s = "SelectGenerateResponseJobFaq" -> selectGenerateResponseJobFaq
      [] s = "SelectResourceStreamingJobRag" -> selectResourceStreamingJobRag
      [] s = "SelectGenerateResponseJobRag" -> selectGenerateResponseJobRag
      [] s = "SelectRetrieveJob" -> selectRetrieveJob

SelectStates == {"SelectResourceStreamingJobFaq", "SelectGenerateResponseJobFaq",
                 "SelectResourceStreamingJobRag", "SelectGenerateResponseJobRag",
                 "SelectRetrieveJob"}

\* Pass states without parameters: output = input
PlainPassStates == {"StreamingSuccessFaq", "StreamingSuccessRag",
                    "ResourceStreamingSuccessFaq", "ResourceStreamingSuccessRag",
                    "AllParallelTasksSuccessful"}

PassStates == SelectStates \cup PlainPassStates

FailStates == {"ClassificationFailed", "StreamingFailedFaq", "StreamingFailedRag",
               "ResourceStreamingFailedFaq", "ResourceStreamingFailedRag",
               "ParallelTasksFailed"}

ChoiceStates == {"BranchOnQueryClass", "CheckStreamingSuccessFaq",
                 "CheckStreamingSuccessRag", "CheckResourceStreamingSuccessFaq",
                 "CheckResourceStreamingSuccessRag", "CheckAllParallelResults"}

ParallelStates == {"ParallelResourceAndStreaming", "ParallelRagStreaming"}

\* as isFaq, matching null too
isFaq_OrNull(input) == input.query_class \in {"faq", Null}

\* sfn.Condition.stringEquals('$.query_class', ...)
isFaq(input) == input.query_class = "faq"
isRag(input) == input.query_class = "rag"

\* the first state of faqBranch / ragBranch in each definition
faqBranch(k) ==
    IF k = "parallel" THEN "ParallelResourceAndStreaming"
    ELSE "SelectGenerateResponseJobFaq"

ragBranch(k) == "SelectRetrieveJob"

\* as BranchOnQueryClass, with the RAG branch as the default
BranchOnQueryClass_DefaultRag(k, input) ==
    IF isFaq(input) THEN faqBranch(k) ELSE ragBranch(k)

\* Choice 'BranchOnQueryClass': .when(isFaq, faqBranch).when(isRag, ragBranch)
\* .otherwise(Fail 'ClassificationFailed')
BranchOnQueryClass(k, input) ==
    IF isFaq(input) THEN faqBranch(k)
    ELSE IF isRag(input) THEN ragBranch(k)
    ELSE "ClassificationFailed"

\* as the Choice states below, with the condition on true instead of false
checkStreamingSuccessFaq_Inverted(input) ==
    IF input.successful = TRUE THEN "StreamingFailedFaq" ELSE "StreamingSuccessFaq"

checkResourceStreamingSuccessFaq_Inverted(input) ==
    IF input.successful = TRUE THEN "ResourceStreamingFailedFaq"
    ELSE "ResourceStreamingSuccessFaq"

\* Choice: .when(booleanEquals('$.successful', false), Fail).otherwise(Pass)
checkStreamingSuccessFaq(input) ==
    IF input.successful = FALSE THEN "StreamingFailedFaq" ELSE "StreamingSuccessFaq"

checkStreamingSuccessRag(input) ==
    IF input.successful = FALSE THEN "StreamingFailedRag" ELSE "StreamingSuccessRag"

checkResourceStreamingSuccessFaq(input) ==
    IF input.successful = FALSE THEN "ResourceStreamingFailedFaq"
    ELSE "ResourceStreamingSuccessFaq"

checkResourceStreamingSuccessRag(input) ==
    IF input.successful = FALSE THEN "ResourceStreamingFailedRag"
    ELSE "ResourceStreamingSuccessRag"

\* a JSON array: the output of a Parallel state
Array(items) == [type |-> "Array", items |-> items]

\* Choice over the output array of the Parallel state ('$[0]', '$[1]')
checkAllParallelResults(input) ==
    IF input.items[1].successful = TRUE /\ input.items[2].successful = TRUE
    THEN "AllParallelTasksSuccessful"
    ELSE "ParallelTasksFailed"

ChoiceTarget(k, s, input) ==
    CASE s = "BranchOnQueryClass" -> BranchOnQueryClass(k, input)
      [] s = "CheckStreamingSuccessFaq" -> checkStreamingSuccessFaq(input)
      [] s = "CheckStreamingSuccessRag" -> checkStreamingSuccessRag(input)
      [] s = "CheckResourceStreamingSuccessFaq" -> checkResourceStreamingSuccessFaq(input)
      [] s = "CheckResourceStreamingSuccessRag" -> checkResourceStreamingSuccessRag(input)
      [] s = "CheckAllParallelResults" -> checkAllParallelResults(input)

\* The path a Choice rule reads exists in the input (a rule over a path that
\* does not exist is a States.Runtime failure of the execution)
ChoicePathExists(s, input) ==
    CASE s = "BranchOnQueryClass" -> "query_class" \in DOMAIN input
      [] s = "CheckAllParallelResults" ->
            /\ input.type = "Array"
            /\ Len(input.items) = 2
            /\ "successful" \in DOMAIN input.items[1]
            /\ "successful" \in DOMAIN input.items[2]
      [] OTHER -> "successful" \in DOMAIN input

End == "END"

\* .next(...) chains of the definition with parallel branches
NextParallelStack(s) ==
    CASE s = "ClassifierTask" -> "BranchOnQueryClass"
      [] s = "SelectResourceStreamingJobFaq" -> "ResourceStreamingTaskFaq"
      [] s = "ResourceStreamingTaskFaq" -> "CheckResourceStreamingSuccessFaq"
      [] s = "SelectGenerateResponseJobFaq" -> "StreamingTaskFaq"
      [] s = "StreamingTaskFaq" -> "CheckStreamingSuccessFaq"
      [] s = "ParallelResourceAndStreaming" -> "CheckAllParallelResults"
      [] s = "SelectRetrieveJob" -> "RetrievalTaskRag"
      [] s = "RetrievalTaskRag" -> "ParallelRagStreaming"
      [] s = "SelectResourceStreamingJobRag" -> "ResourceStreamingTaskRag"
      [] s = "ResourceStreamingTaskRag" -> "CheckResourceStreamingSuccessRag"
      [] s = "SelectGenerateResponseJobRag" -> "StreamingTaskRag"
      [] s = "StreamingTaskRag" -> "CheckStreamingSuccessRag"
      [] OTHER -> End

\* as NextSingleStack, without the Pass state between retrieval and streaming
NextSingleStack_NoSelect(s) ==
    CASE s = "ClassifierTask" -> "BranchOnQueryClass"
      [] s = "SelectGenerateResponseJobFaq" -> "StreamingTaskFaq"
      [] s = "StreamingTaskFaq" -> "CheckStreamingSuccessFaq"
      [] s = "SelectRetrieveJob" -> "RetrievalTaskRag"
      [] s = "RetrievalTaskRag" -> "StreamingTaskRag"
      [] s = "StreamingTaskRag" -> "CheckStreamingSuccessRag"
      [] OTHER -> End

\* as NextSingleStack, the success state of the rag branch chained to its
\* Fail state
NextSingleStack_SuccessThenFail(s) ==
    CASE s = "ClassifierTask" -> "BranchOnQueryClass"
      [] s = "SelectGenerateResponseJobFaq" -> "StreamingTaskFaq"
      [] s = "StreamingTaskFaq" -> "CheckStreamingSuccessFaq"
      [] s = "SelectRetrieveJob" -> "RetrievalTaskRag"
      [] s = "RetrievalTaskRag" -> "SelectGenerateResponseJobRag"
      [] s = "SelectGenerateResponseJobRag" -> "StreamingTaskRag"
      [] s = "StreamingTaskRag" -> "CheckStreamingSuccessRag"
      [] s = "StreamingSuccessRag" -> "StreamingFailedRag"
      [] OTHER -> End

\* .next(...) chains of the definition with one streaming task
NextSingleStack(s) ==
    CASE s = "ClassifierTask" -> "BranchOnQueryClass"
      [] s = "SelectGenerateResponseJobFaq" -> "StreamingTaskFaq"
      [] s = "StreamingTaskFaq" -> "CheckStreamingSuccessFaq"
      [] s = "SelectRetrieveJob" -> "RetrievalTaskRag"
      [] s = "RetrievalTaskRag" -> "SelectGenerateResponseJobRag"
      [] s = "SelectGenerateResponseJobRag" -> "StreamingTaskRag"
      [] s = "StreamingTaskRag" -> "CheckStreamingSuccessRag"
      [] OTHER -> End

NextState(k, s) == IF k = "parallel" THEN NextParallelStack(s) ELSE NextSingleStack(s)

\* as ParallelBranches, with the response job wired into both branches
ParallelBranches_BothStream(s) ==
    IF s = "ParallelResourceAndStreaming"
    THEN <<"SelectGenerateResponseJobFaq", "SelectGenerateResponseJobFaq">>
    ELSE <<"SelectGenerateResponseJobRag", "SelectGenerateResponseJobRag">>

\* the first states of the two branches of a Parallel state
ParallelBranches(s) ==
    IF s = "ParallelResourceAndStreaming"
    THEN <<"SelectResourceStreamingJobFaq", "SelectGenerateResponseJobFaq">>
    ELSE <<"SelectResourceStreamingJobRag", "SelectGenerateResponseJobRag">>

\* const definition = classifierTask.next(errorChoice)
definition == "ClassifierTask"

----------------------------------------------------------------------------
(* Job descriptors and stage results *)

\* resource content of a job: a template still lacking its content, a resolved
\* FAQ pair, or a list of count documents
Template == [kind |-> "template"]
FaqPair == [kind |-> "faq"]
Documents(n) == [kind |-> "documents", count |-> n]

MessageEvent(q, s) ==
    [type |-> "MessageEvent", query |-> "text", query_id |-> q, session_id |-> s]

StreamResourcesJob(q, s, rt, content) ==
    [type |-> "StreamResourcesJob", query_id |-> q, session_id |-> s,
     resource_type |-> rt, content |-> content]

GenerateResponseJob(q, s, rt, resources) ==
    [type |-> "GenerateResponseJob", query |-> "text", query_id |-> q,
     session_id |-> s, resource_type |-> rt, resources |-> resources]

\* inputs that lack required fields: only query_id, or no session_id
InvalidEvents ==
    {[type |-> "MessageEvent", query_id |-> q] : q \in QueryIds}
        \cup {[type |-> "MessageEvent", query |-> "text", query_id |-> q] : q \in QueryIds}

\* the input carries {query, query_id, session_id}
ValidEvent(ev) == {"query", "query_id", "session_id"} \subseteq DOMAIN ev

RetrieveJob(q, s) ==
    [type |-> "RetrieveJob", query |-> "text", query_id |-> q, session_id |-> s]

\* Classifier: the bundle of jobs goes with the class; no retrieve job unless rag
ClassifierResult(ev, ok, qc) ==
    [type |-> "ClassifierResult", successful |-> ok, query_class |-> qc,
     stream_documents_job |->
        IF qc = "faq" THEN StreamResourcesJob(ev.query_id, ev.session_id, "faq", FaqPair)
        ELSE IF qc = "rag"
             THEN StreamResourcesJob(ev.query_id, ev.session_id, "documents", Template)
             ELSE NoJob,
     generate_response_job |->
        IF qc = "faq" THEN GenerateResponseJob(ev.query_id, ev.session_id, "faq", FaqPair)
        ELSE IF qc = "rag"
             THEN GenerateResponseJob(ev.query_id, ev.session_id, "documents", Template)
             ELSE NoJob,
     retrieve_job |->
        IF qc = "rag" THEN RetrieveJob(ev.query_id, ev.session_id) ELSE NoJob]

\* the results the Classifier can return: on success exactly one of the two
\* classes; on failure any query_class; for an input that fails validation,
\* query_class null and no job
ClassifierResults(ev) ==
    IF ValidEvent(ev)
    THEN {ClassifierResult(ev, TRUE, qc) : qc \in {"faq", "rag"}}
            \cup {ClassifierResult(ev, FALSE, qc) : qc \in QueryClasses}
    ELSE {ClassifierResult(ev, FALSE, Null)}

\* Retrieval: the jobs now carry n documents; a failed retrieval returns its
\* jobs either null or with an empty document list
RetrieveResult(job, ok, n, withJobs) ==
    [type |-> "RetrieveResult", successful |-> ok,
     stream_documents_job |->
        IF withJobs
        THEN StreamResourcesJob(job.query_id, job.session_id, "documents", Documents(n))
        ELSE NoJob,
     generate_response_job |->
        IF withJobs
        THEN GenerateResponseJob(job.query_id, job.session_id, "documents", Documents(n))
        ELSE NoJob]

RetrieveResults(job) ==
    {RetrieveResult(job, TRUE, n, TRUE) : n \in 0..MaxDocs}
        \cup {RetrieveResult(job, FALSE, 0, w) : w \in BOOLEAN}

StageResult(ok) == [type |-> "StageResult", successful |-> ok]

\* a job a push-bearing stage can work on: present and carrying its content
ValidGenerateResponseJob(job) ==
    /\ job.type = "GenerateResponseJob"
    /\ job.resources.kind \in {"faq", "documents"}

ValidStreamResourcesJob(job) ==
    /\ job.type = "StreamResourcesJob"
    /\ job.content.kind \in {"faq", "documents"}

----------------------------------------------------------------------------
(* Messages pushed to the client *)

DocumentsMessage(q, n) ==
    [responseType |-> "documents", queryId |-> q, event |-> "-", docs |-> n]
FAQMessage(q) ==
    [responseType |-> "faq", queryId |-> q, event |-> "-", docs |-> 0]
\* as FragmentMessage, without the queryId
FragmentMessage_NoQueryId(q) ==
    [responseType |-> "fragment", queryId |-> Null, event |-> "-", docs |-> 0]
FragmentMessage(q) ==
    [responseType |-> "fragment", queryId |-> q, event |-> "-", docs |-> 0]
AnswerEvent(q, e) ==
    [responseType |-> "answer-event", queryId |-> q, event |-> e, docs |-> 0]
ErrorMessage(q) ==
    [responseType |-> "error", queryId |-> q, event |-> "-", docs |-> 0]

\* the resources message of a job's content
ResourcesMessage(q, content) ==
    IF content.kind = "faq" THEN FAQMessage(q) ELSE DocumentsMessage(q, content.count)

----------------------------------------------------------------------------
(* The session service: SessionTable and the WebSocket API *)

\* connection ids the API hands out, in order; no connection
ConnIds == 1..MaxConnections
NoConnection == 0

\* session ids the session API can mint, and one it never minted
SessionTokens == {"s1", "s2"}
NonExistentSession == "non-existent-session-id"

\* as PartitionKey, the table keyed by connection
PartitionKey_ConnectionId == "connectionId"

\* SessionTable: partitionKey sessionId (one item per session)
PartitionKey == "sessionId"

\* the global secondary index of the table
connectionIdIndex == "connectionId"

SessionItem(s, c) == [sessionId |-> s, connectionId |-> c]

\* PutItem: the item replaces the item with the same partition key
PutItem(table, item) ==
    {i \in table : i[PartitionKey] # item[PartitionKey]} \cup {item}

\* get(sessionId): the items of a session
GetSession(table, s) == {i \in table : i.sessionId = s}

\* Query on the index connectionId: the sessions holding this handle
FindByConnectionHandle(table, c) ==
    {i.sessionId : i \in {j \in table : j[connectionIdIndex] = c}}

\* the connection handles associated with session s
Handles(s) ==
    {i.connectionId : i \in {j \in sessionsTable :
                                j.sessionId = s /\ j.connectionId # NoConnection}}

\* as PostTarget, with the handle looked up once and kept: the first handle
\* the session was given
PostTarget_Cached(s) ==
    LET given == {c \in ConnIds : /\ connections[c].sessionId = s
                                  /\ connections[c].st \in {"open", "disconnecting",
                                                             "clearing", "closed"}}
    IN  IF given = {} THEN NoConnection
        ELSE CHOOSE c \in given : \A d \in given : c <= d

\* the connection a message for session s is posted to: the handle the
\* session item holds when the message is sent (none: nothing is posted)
PostTarget(s) ==
    IF Handles(s) = {} THEN NoConnection ELSE CHOOSE c \in Handles(s) : TRUE

\* one push attempt: the message, the connection it was posted to, and
\* whether the client got it
Pushed(msg, outcome) ==
    [msg |-> msg, to |-> PostTarget(event.session_id),
     delivered |-> (outcome = "delivered")]

\* one send on the push channel: the stage swallows a delivery error
Send(msg, outcome) ==
    /\ pushed' = Append(pushed, Pushed(msg, outcome))
    /\ faults' = faults \cup (IF outcome = "delivered" THEN {} ELSE {"delivery"})

\* what the client has received, in order
Received == SelectSeq(pushed, LAMBDA p : p.delivered)

NoConnectionYet ==
    [sessionId |-> Null, st |-> "free", client |-> "-", found |-> Null,
     notified |-> "none"]

\* the connection id the API hands out next
NextConnId == CHOOSE c \in ConnIds :
                 /\ connections[c].st = "free"
                 /\ \A d \in ConnIds : d < c => connections[d].st # "free"
ConnIdLeft == \E c \in ConnIds : connections[c].st = "free"

\* a session id not minted so far
FreshTokens == {s \in SessionTokens : GetSession(sessionsTable, s) = {}}

NoMessage == [responseType |-> Null]

\* the two versions of the hook: use-validated-websocket.ts, and the one
\* with the onValidationError option
HookVariants == {"plain", "callbacks"}

\* useValidatedWebSocket: useState initial values (ws: the socket of the
\* current websocketUrl; previous: the sessionId held at the last close;
\* inbound, dispatched, reported: what was received, what was handed to the
\* message handler, what was reported as an error)
HookInit ==
    [variant |-> "plain", sessionId |-> Null, connectionState |-> "connecting",
     ws |-> NoConnection, previous |-> Null, lastMessage |-> NoMessage,
     inbound |-> <<>>, dispatched |-> <<>>, reported |-> <<>>]

----------------------------------------------------------------------------
(* The validated message protocol: message-types.ts *)

\* a value that is not a string (a number, say) where a string is expected
NotAString == "<number>"

Fail == [ok |-> FALSE]
Pass(v) == [ok |-> TRUE, value |-> v]

\* z.string() on the key k of an object
IsStringAt(obj, k) == k \in DOMAIN obj /\ obj[k] # NotAString

\* z.string().optional() on the key k of an object
IsOptionalStringAt(obj, k) == k \in DOMAIN obj => obj[k] # NotAString

\* z.object(...) without .strict(): keys outside the shape are stripped
Strip(obj, keys) == [k \in (DOMAIN obj \cap keys) |-> obj[k]]

SourceDocumentSchema(d) ==
    IF /\ IsStringAt(d, "documentId")
       /\ IsStringAt(d, "title")
       /\ IsStringAt(d, "content")
       /\ IsOptionalStringAt(d, "source")
    THEN Pass(Strip(d, {"documentId", "title", "content", "source"}))
    ELSE Fail

DocumentsContentSchema(c) ==
    IF /\ "documents" \in DOMAIN c
       /\ \A i \in DOMAIN c.documents : SourceDocumentSchema(c.documents[i]).ok
    THEN Pass([documents |-> [i \in DOMAIN c.documents |->
                                SourceDocumentSchema(c.documents[i]).value]])
    ELSE Fail

DocumentsMessageSchema(b) ==
    IF /\ IsStringAt(b, "queryId")
       /\ "content" \in DOMAIN b
       /\ DocumentsContentSchema(b.content).ok
    THEN Pass([responseType |-> "documents", queryId |-> b.queryId,
               content |-> DocumentsContentSchema(b.content).value])
    ELSE Fail

FAQSchema(f) ==
    IF IsStringAt(f, "question") /\ IsStringAt(f, "answer")
    THEN Pass(Strip(f, {"question", "answer"}))
    ELSE Fail

FAQContentSchema(c) ==
    IF "faq" \in DOMAIN c /\ FAQSchema(c.faq).ok
    THEN Pass([faq |-> FAQSchema(c.faq).value])
    ELSE Fail

FAQMessageSchema(b) ==
    IF /\ IsStringAt(b, "queryId")
       /\ "content" \in DOMAIN b
       /\ FAQContentSchema(b.content).ok
    THEN Pass([responseType |-> "faq", queryId |-> b.queryId,
               content |-> FAQContentSchema(b.content).value])
    ELSE Fail

ErrorContentSchema(c) ==
    IF IsStringAt(c, "message") THEN Pass(Strip(c, {"message"})) ELSE Fail

ErrorMessageSchema(b) ==
    IF "content" \in DOMAIN b /\ ErrorContentSchema(b.content).ok
    THEN Pass([responseType |-> "error",
               content |-> ErrorContentSchema(b.content).value])
    ELSE Fail

AnswerEventTypeSchema(b) ==
    IF /\ "event" \in DOMAIN b
       /\ b.event \in {"start", "stop"}
       /\ IsStringAt(b, "queryId")
    THEN Pass([responseType |-> "answer-event", event |-> b.event,
               queryId |-> b.queryId])
    ELSE Fail

FragmentContentSchema(c) ==
    IF IsStringAt(c, "fragment") THEN Pass(Strip(c, {"fragment"})) ELSE Fail

FragmentMessageSchema(b) ==
    IF /\ IsStringAt(b, "queryId")
       /\ "content" \in DOMAIN b
       /\ FragmentContentSchema(b.content).ok
    THEN Pass([responseType |-> "fragment", queryId |-> b.queryId,
               content |-> FragmentContentSchema(b.content).value])
    ELSE Fail

\* z.discriminatedUnion('responseType', [...])
MessageUnionSchema(b) ==
    IF "responseType" \notin DOMAIN b THEN Fail
    ELSE CASE b.responseType = "documents" -> DocumentsMessageSchema(b)
           [] b.responseType = "faq" -> FAQMessageSchema(b)
           [] b.responseType = "error" -> ErrorMessageSchema(b)
           [] b.responseType = "fragment" -> FragmentMessageSchema(b)
           [] b.responseType = "answer-event" -> AnswerEventTypeSchema(b)
           [] OTHER -> Fail

\* as StreamIds, every string a stream id
StreamIds_Open == {"answer-event", "answer", "resources", "error", "debug"}

\* streamId: z.enum([...])
StreamIds == {"answer-event", "answer", "resources", "error"}

WebSocketMessageSchema(v) ==
    IF /\ "streamId" \in DOMAIN v
       /\ v.streamId \in StreamIds
       /\ "body" \in DOMAIN v
       /\ MessageUnionSchema(v.body).ok
    THEN Pass([streamId |-> v.streamId, body |-> MessageUnionSchema(v.body).value])
    ELSE Fail

\* the stream a message body is sent on
StreamIdOf(body) ==
    CASE body.responseType \in {"documents", "faq"} -> "resources"
      [] body.responseType = "fragment" -> "answer"
      [] body.responseType = "answer-event" -> "answer-event"
      [] OTHER -> "error"

\* the text on the wire: JSON, or not JSON
JsonText(v) == [kind |-> "json", value |-> v]
NotJsonText == [kind |-> "text"]

\* encoding: the body in its envelope, as JSON text
Encode(body) == JsonText([streamId |-> StreamIdOf(body), body |-> body])

\* JSON.parse: throws on a text that is not JSON
JSONparse(text) == IF text.kind = "json" THEN Pass(text.value) ELSE Fail

\* decoding as handleMessage does it: JSON.parse, WebSocketMessageSchema.parse,
\* the body of the result
Decode(text) ==
    IF JSONparse(text).ok /\ WebSocketMessageSchema(JSONparse(text).value).ok
    THEN Pass(WebSocketMessageSchema(JSONparse(text).value).value.body)
    ELSE Fail

Doc == [documentId |-> "d1", title |-> "Title", content |-> "Text"]
Faq == [question |-> "Q", answer |-> "A"]

\* the variants of MessageUnion in the data model; schema says whether
\* message-types.ts has a place for every field of the variant
DataModelMessages ==
    << [schema |-> TRUE, msg |->
            [responseType |-> "documents", queryId |-> "q1",
             content |-> [documents |-> <<>>]]],
       [schema |-> TRUE, msg |->
            [responseType |-> "documents", queryId |-> "q1",
             content |-> [documents |-> <<Doc>>]]],
       [schema |-> TRUE, msg |->
            [responseType |-> "documents", queryId |-> "q1",
             content |-> [documents |->
                <<[documentId |-> "d1", title |-> "Title", content |-> "Text",
                   source |-> "DOR"]>>]]],
       [schema |-> FALSE, msg |->
            [responseType |-> "documents", queryId |-> "q1",
             content |-> [documents |->
                <<[documentId |-> "d1", title |-> "Title", content |-> "Text",
                   source |-> "DOR", sourceUrl |-> "https://dor.example"]>>]]],
       [schema |-> TRUE, msg |->
            [responseType |-> "faq", queryId |-> "q1", content |-> [faq |-> Faq]]],
       [schema |-> TRUE, msg |->
            [responseType |-> "fragment", queryId |-> "q1",
             content |-> [fragment |-> "text"]]],
       [schema |-> TRUE, msg |->
            [responseType |-> "answer-event", event |-> "start", queryId |-> "q1"]],
       [schema |-> TRUE, msg |->
            [responseType |-> "answer-event", event |-> "stop", queryId |-> "q1"]],
       [schema |-> TRUE, msg |->
            [responseType |-> "error", content |-> [message |-> "failed"]]],
       [schema |-> FALSE, msg |->
            [responseType |-> "error", queryId |-> "q1",
             content |-> [message |-> "failed"]]] >>

\* payloads that are not valid JSON or that the schema rejects
InvalidPayloads ==
    << NotJsonText,
       JsonText([scalar |-> "hello"]),
       JsonText([streamId |-> "answer"]),
       JsonText([streamId |-> "debug",
                 body |-> [responseType |-> "fragment", queryId |-> "q1",
                           content |-> [fragment |-> "text"]]]),
       JsonText([streamId |-> "resources",
                 body |-> [responseType |-> "resources", queryId |-> "q1"]]),
       JsonText([streamId |-> "answer",
                 body |-> [responseType |-> "fragment",
                           content |-> [fragment |-> "text"]]]),
       JsonText([streamId |-> "answer",
                 body |-> [responseType |-> "fragment", queryId |-> NotAString,
                           content |-> [fragment |-> "text"]]]),
       JsonText([streamId |-> "answer-event",
                 body |-> [responseType |-> "answer-event", event |-> "pause",
                           queryId |-> "q1"]]),
       JsonText([streamId |-> "resources",
                 body |-> [responseType |-> "documents", queryId |-> "q1",
                           content |-> [documents |-> <<[documentId |-> "d1"]>>]]]),
       JsonText([streamId |-> "error",
                 body |-> [responseType |-> "error", content |-> [error |-> "failed"]]]) >>

\* what the socket can receive: each variant encoded, then the invalid
\* payloads; invalid says that the payload is one of the latter
Payloads ==
    [i \in 1..(Len(DataModelMessages) + Len(InvalidPayloads)) |->
        IF i <= Len(DataModelMessages)
        THEN [text |-> Encode(DataModelMessages[i].msg), invalid |-> FALSE]
        ELSE [text |-> InvalidPayloads[i - Len(DataModelMessages)], invalid |-> TRUE]]

----------------------------------------------------------------------------
(* The client's chat store (chat-store.ts) and what useWebSocketChat does
   to it *)

\* the two versions of useWebSocketChat: the one that holds the mutations
\* itself (sendMessage({message})), and the one that delegates the send to
\* useValidatedWebSocket and is told of an accepted send by onSuccessfulSend
ChatVariants == {"inline", "delegated"}

\* the query ids the send API hands out, in this order
ChatQueryIds == {"q1", "q2"}

Undefined == "undefined"
NoQuery == [present |-> FALSE]
NoResources == [set |-> FALSE]
NoError == [set |-> FALSE]

\* the initial application state of the store
initialState ==
    [sessionId |-> Null, sessionStatus |-> "idle", connectionState |-> "closed",
     chatState |-> "idle", currentQueryId |-> Null,
     queries |-> [q \in ChatQueryIds |-> NoQuery], queryOrder |-> <<>>,
     errors |-> <<>>, draftMessage |-> ""]

\* state.queries[queryId] is truthy
HasQuery(s, queryId) == queryId \in ChatQueryIds /\ s.queries[queryId] # NoQuery

setSessionId(s, sessionId) == [s EXCEPT !.sessionId = sessionId]
setConnectionState(s, connectionState) == [s EXCEPT !.connectionState = connectionState]
setChatState(s, chatState) == [s EXCEPT !.chatState = chatState]
setCurrentQueryId(s, queryId) == [s EXCEPT !.currentQueryId = queryId]

addQuery(s, query) ==
    [s EXCEPT !.queries[query.queryId] = query,
              !.queryOrder = Append(@, query.queryId)]

updateQueryResponse(s, queryId, content) ==
    IF HasQuery(s, queryId)
    THEN [s EXCEPT !.queries[queryId].response.content = content]
    ELSE s

\* as appendQueryResponse, the fragment taking the place of the content
appendQueryResponse_Replace(s, queryId, fragment) ==
    updateQueryResponse(s, queryId, fragment)

\* declared in the ChatStore interface and called by the hook; the store of
\* chat-store.ts has no such member: the fragment is appended to the
\* content, as the hook's test expects
appendQueryResponse(s, queryId, fragment) ==
    IF HasQuery(s, queryId)
    THEN [s EXCEPT !.queries[queryId].response.content = @ \o fragment]
    ELSE s

updateQueryResources(s, queryId, resources) ==
    IF HasQuery(s, queryId)
    THEN [s EXCEPT !.queries[queryId].resources = resources]
    ELSE s

\* as updateQueryStatus, a record made for an id the store does not have
updateQueryStatus_Upsert(s, queryId, status) ==
    IF HasQuery(s, queryId)
    THEN [s EXCEPT !.queries[queryId].status = status]
    ELSE IF queryId \in ChatQueryIds
         THEN [s EXCEPT !.queries[queryId] =
                  [present |-> TRUE, queryId |-> queryId, status |-> status],
                        !.queryOrder = Append(@, queryId)]
         ELSE s

updateQueryStatus(s, queryId, status) ==
    IF HasQuery(s, queryId)
    THEN [s EXCEPT !.queries[queryId].status = status]
    ELSE s

setQueryError(s, queryId, error) ==
    IF HasQuery(s, queryId)
    THEN [s EXCEPT !.queries[queryId].error = error]
    ELSE s

addError(s, error) == [s EXCEPT !.errors = Append(@, error)]

\* state.queries[queryId].error = undefined
clearQueryError(s, queryId) ==
    IF HasQuery(s, queryId)
    THEN [s EXCEPT !.queries[queryId].error = NoError]
    ELSE s

\* state.queries[queryId].retryCount || 0: the member is optional
RetryCountOf(query) ==
    IF "retryCount" \in DOMAIN query THEN query.retryCount ELSE 0

incrementQueryRetry(s, queryId) ==
    IF HasQuery(s, queryId)
    THEN [s EXCEPT !.queries[queryId] =
            [k \in DOMAIN @ \cup {"retryCount"} |->
                IF k = "retryCount" THEN RetryCountOf(@) + 1 ELSE @[k]]]
    ELSE s

clearHistory(s) ==
    [s EXCEPT !.queries = [q \in ChatQueryIds |-> NoQuery],
              !.queryOrder = <<>>, !.errors = <<>>]

\* as reset, connectionState reset with the other fields
reset_Everything(s) == initialState

reset(s) ==
    [s EXCEPT !.sessionId = Null, !.sessionStatus = "idle", !.chatState = "idle",
              !.currentQueryId = Null,
              !.queries = [q \in ChatQueryIds |-> NoQuery],
              !.queryOrder = <<>>, !.errors = <<>>, !.draftMessage = ""]

\* the Query built when the API has accepted a message (timestamp left out;
\* resources and error are the optional members, not set)
NewQuery(message, queryId) ==
    [present |-> TRUE, query |-> message, queryId |-> queryId,
     type |-> "outbound", status |-> "sent",
     response |-> [type |-> "stream", content |-> ""],
     resources |-> NoResources, error |-> NoError]

\* the ChatError objects the hooks build (id and timestamp left out)
ApiError(userMessage) ==
    [type |-> "api", userMessage |-> userMessage, retryable |-> TRUE]
ProcessingError ==
    [type |-> "websocket", userMessage |-> "Failed to process incoming message",
     retryable |-> FALSE]
\* new ChatError(error, {userMessage, recoverable: true}), handed to useChatError
BoundaryError ==
    [userMessage |-> "An error occurred while processing a response from the server.",
     recoverable |-> TRUE]

\* message.queryId
QueryIdOf(message) ==
    IF "queryId" \in DOMAIN message THEN message.queryId ELSE Undefined

\* the value of the resources member: a list of ResourceItem, or the one
\* object {type, content} of the inline version
Items(items) == [set |-> TRUE, items |-> items]
Resources(type, content) == [set |-> TRUE, type |-> type, content |-> content]
QueryError(message) == [set |-> TRUE, message |-> message, retryable |-> TRUE]

\* a document content of the lines 'Q: Q' and 'A: A'
FaqFormatted == "Q: Q / A: A"

\* parseFAQFromDocument: the question and the answer out of the lines
\* 'Q: ...' and 'A: ...' of the content, or null
parseFAQFromDocument(document) ==
    IF document.content = FaqFormatted
    THEN Pass([faqId |-> document.documentId, question |-> "Q", answer |-> "A"])
    ELSE Fail

\* documents.map(document => ...) of the delegated version
DocumentItem(document) ==
    IF /\ "sourceId" \in DOMAIN document
       /\ document.sourceId = "faqs"
       /\ parseFAQFromDocument(document).ok
    THEN [type |-> "faq", data |-> parseFAQFromDocument(document).value]
    ELSE [type |-> "document", data |-> document]

\* obj.k: undefined when obj has no member k
Member(obj, k) == IF k \in DOMAIN obj THEN obj[k] ELSE Undefined

\* evaluating the case of the switch throws a TypeError: a member of
\* message.content read when there is no content, or .map called on
\* content.faqs when there is no such member
Throws(variant, message) ==
    CASE message.responseType \in {"fragment", "error"} ->
            "content" \notin DOMAIN message
      [] message.responseType = "documents" ->
            variant = "delegated"
            /\ ("content" \notin DOMAIN message
                \/ "documents" \notin DOMAIN message.content)
      [] message.responseType = "faq" ->
            variant = "delegated"
            /\ ("content" \notin DOMAIN message
                \/ "faqs" \notin DOMAIN message.content)
      [] OTHER -> FALSE

\* the try block of messageHandler, inline version
Switch_Inline(s, message) ==
    LET queryId == QueryIdOf(message)
    IN  CASE message.responseType = "documents" ->
               updateQueryResources(s, queryId,
                   Resources("documents", Member(message, "content")))
          [] message.responseType = "faq" ->
               updateQueryResources(s, queryId,
                   Resources("faq", Member(message, "content")))
          [] message.responseType = "fragment" ->
               appendQueryResponse(s, queryId, message.content.fragment)
          [] message.responseType = "answer-event" /\ message.event = "start" ->
               setChatState(updateQueryStatus(s, queryId, "streaming"), "streaming")
          [] message.responseType = "answer-event" /\ message.event = "stop" ->
               setChatState(updateQueryStatus(s, queryId, "completed"), "idle")
          [] message.responseType = "error" ->
               updateQueryStatus(
                   setQueryError(s, queryId,
                                 QueryError(Member(message.content, "message"))),
                   queryId, "failed")
          [] OTHER -> s

\* the try block of messageHandler, delegated version
Switch_Delegated(s, message) ==
    LET queryId == QueryIdOf(message)
    IN  CASE message.responseType = "documents" ->
               updateQueryResources(s, queryId,
                   Items([i \in DOMAIN message.content.documents |->
                             DocumentItem(message.content.documents[i])]))
          [] message.responseType = "faq" ->
               updateQueryResources(s, queryId,
                   Items([i \in DOMAIN message.content.faqs |->
                             [type |-> "faq", data |-> message.content.faqs[i]]]))
          [] message.responseType = "fragment" ->
               appendQueryResponse(s, queryId, message.content.fragment)
          [] message.responseType = "answer-event" /\ message.event = "start" ->
               setChatState(updateQueryStatus(s, queryId, "streaming"), "streaming")
          [] message.responseType = "answer-event" /\ message.event = "stop" ->
               setChatState(updateQueryStatus(s, queryId, "completed"), "idle")
          [] message.responseType = "error" ->
               LET set == setQueryError(s, queryId,
                                        QueryError(Member(message.content, "error")))
               IN  IF queryId # Undefined
                   THEN updateQueryStatus(set, queryId, "failed")
                   ELSE set
          [] OTHER -> s

\* what the server sends to the client of this chat: the resources of q1,
\* the events and fragments of its answer, an error about q1 and one about
\* no query
FaqDoc == [documentId |-> "d2", title |-> "Q", content |-> FaqFormatted,
           sourceId |-> "faqs"]
ServerMessages ==
    { [responseType |-> "documents", queryId |-> "q1",
       content |-> [documents |-> <<>>]],
      [responseType |-> "documents", queryId |-> "q1",
       content |-> [documents |-> <<Doc, FaqDoc>>]],
      [responseType |-> "faq", queryId |-> "q1", content |-> [faq |-> Faq]],
      [responseType |-> "answer-event", event |-> "start", queryId |-> "q1"],
      [responseType |-> "fragment", queryId |-> "q1", content |-> [fragment |-> "Hel"]],
      [responseType |-> "fragment", queryId |-> "q1", content |-> [fragment |-> "lo"]],
      [responseType |-> "answer-event", event |-> "stop", queryId |-> "q1"],
      [responseType |-> "error", queryId |-> "q1", content |-> [message |-> "failed"]],
      [responseType |-> "error", content |-> [message |-> "failed"]] }

\* a fragment message without content, as the hook's test hands one to the
\* handler
MalformedFragment == [responseType |-> "fragment", queryId |-> "q1"]

\* what the handler can be called with: what handleMessage makes of a
\* message of the server (sent: the message as the server sent it), and the
\* malformed message of the test
Dispatches ==
    {[sent |-> m, message |-> Decode(Encode(m)).value] :
        m \in {n \in ServerMessages : Decode(Encode(n)).ok}}
    \cup {[sent |-> MalformedFragment, message |-> MalformedFragment]}

NoDispatch == [sent |-> NoMessage, message |-> NoMessage, threw |-> FALSE]

\* the hook and its store at the start (state: the store; sessionId: the
\* hook's own sessionId; call: the API call in flight; sends, handled: calls
\* of sendMessage and of the message handler so far; last: the message
\* handled last; fragments: per query of the store, the fragments the
\* handler was given for it, in order; accepted: the query ids the send API
\* has answered with; settled: how the API call made last has ended;
\* boundary: the errors handed to useChatError)
ChatInit ==
    [variant |-> "inline", state |-> initialState, sessionId |-> Null,
     call |-> "none", sends |-> 0, handled |-> 0, last |-> NoDispatch,
     fragments |-> [q \in ChatQueryIds |-> <<>>], accepted |-> <<>>,
     settled |-> "none", boundary |-> <<>>, storeCalls |-> 0,
     sessions |-> <<>>, posts |-> <<>>]

----------------------------------------------------------------------------
(* The execution of the state machine *)

Branches == {"b0", "b1"}
Sibling(c) == IF c = "b0" THEN "b1" ELSE "b0"

Idle == [pc |-> "idle", job |-> NoJob, caller |-> "main", sent |-> 0]
NoBranch == [state |-> "-", data |-> NoJob, st |-> "idle"]

Events == {MessageEvent(q, s) : q \in QueryIds, s \in SessionIds} \cup InvalidEvents

\* an execution is started with one of these inputs
InitWorkflowOn(inputs) ==
    /\ stack \in Stacks
    /\ event \in inputs
    /\ ctx = [c \in Contexts |->
                IF c = "main"
                THEN [state |-> definition, data |-> event, st |-> "ready"]
                ELSE NoBranch]
    /\ lam = [f \in Functions |-> Idle]
    /\ trace = <<>>
    /\ pushed = <<>>
    /\ faults = {}
    /\ visited = {definition}

InitWorkflow == InitWorkflowOn(Events)

Init ==
    /\ InitWorkflow
    /\ sessionsTable = {}
    /\ connections = [c \in ConnIds |-> NoConnectionYet]
    /\ hook = HookInit
    /\ chat = ChatInit

\* the states entered are remembered
Visit == visited' = visited \cup ({ctx'[c].state : c \in Contexts} \ {"-"})

\* the execution as a whole has ended
Ended == ctx["main"].st \in {"done", "failed"}

\* the flow c leaves state s with this output: on to the next state, or the
\* flow ends
Advance(cx, c, s, output) ==
    IF NextState(stack, s) = End
    THEN [cx EXCEPT ![c] = [state |-> s, data |-> output, st |-> "done"]]
    ELSE [cx EXCEPT ![c] = [state |-> NextState(stack, s), data |-> output, st |-> "ready"]]

\* the flow c fails in state s: without a Catch the execution fails, and a
\* branch of a Parallel state takes the other branch down with it
Abort(cx, c, s) ==
    IF c = "main"
    THEN [cx EXCEPT !["main"].state = s, !["main"].st = "failed"]
    ELSE [cx EXCEPT !["main"].state = s, !["main"].st = "failed",
                    ![c].st = "failed",
                    ![Sibling(c)].st =
                        IF @ \in {"ready", "waiting"} THEN "aborted" ELSE @]

\* A Pass state: selects a job ('job.$': '$.<field>', outputPath '$.job') or
\* passes its input on
PassState(c) ==
    /\ ctx[c].st = "ready"
    /\ ctx[c].state \in PassStates
    /\ LET s == ctx[c].state
           input == ctx[c].data
       IN  IF s \in SelectStates
           THEN IF SelectField(s) \in DOMAIN input
                THEN ctx' = Advance(ctx, c, s, input[SelectField(s)])
                ELSE ctx' = Abort(ctx, c, "States.Runtime")
           ELSE ctx' = Advance(ctx, c, s, input)
    /\ Visit
    /\ UNCHANGED <<stack, event, lam, trace, pushed, faults>>
    /\ UNCHANGED outsideWorkflow

\* A Choice state
ChoiceState(c) ==
    /\ ctx[c].st = "ready"
    /\ ctx[c].state \in ChoiceStates
    /\ LET s == ctx[c].state
           input == ctx[c].data
       IN  IF ChoicePathExists(s, input)
           THEN ctx' = [ctx EXCEPT ![c].state = ChoiceTarget(stack, s, input)]
           ELSE ctx' = Abort(ctx, c, "States.Runtime")
    /\ Visit
    /\ UNCHANGED <<stack, event, lam, trace, pushed, faults>>
    /\ UNCHANGED outsideWorkflow

\* A Fail state
FailState(c) ==
    /\ ctx[c].st = "ready"
    /\ ctx[c].state \in FailStates
    /\ ctx' = Abort(ctx, c, ctx[c].state)
    /\ Visit
    /\ UNCHANGED <<stack, event, lam, trace, pushed, faults>>
    /\ UNCHANGED outsideWorkflow

\* the first step of a handler
EntryPc(f) ==
    IF f = "Streaming"
    THEN IF stack = "single" THEN "resources" ELSE "start"
    ELSE "running"

\* A Task state (tasks.LambdaInvoke) invokes its function with its input
TaskInvoke(c) ==
    /\ ctx[c].st = "ready"
    /\ ctx[c].state \in TaskStates
    /\ LET f == TaskFunction(ctx[c].state)
       IN  /\ lam[f].pc \in {"idle", "returned"}
           /\ lam' = [lam EXCEPT ![f] = [pc |-> EntryPc(f), job |-> ctx[c].data,
                                         caller |-> c, sent |-> 0]]
           /\ trace' = Append(trace, [kind |-> "invoke", fn |-> f,
                                      state |-> ctx[c].state,
                                      payload |-> ctx[c].data])
    /\ ctx' = [ctx EXCEPT ![c].st = "waiting"]
    /\ UNCHANGED <<stack, event, pushed, faults, visited>>
    /\ UNCHANGED outsideWorkflow

\* the function f returns result: the task's output is the payload, unless
\* the flow that invoked it has been taken down meanwhile
Return(f, result) ==
    /\ lam' = [lam EXCEPT ![f].pc = "returned"]
    /\ LET c == lam[f].caller
       IN  /\ trace' = Append(trace, [kind |-> "return", fn |-> f,
                                      state |-> ctx[c].state, payload |-> result])
           /\ ctx' = IF ctx[c].st = "waiting"
                     THEN Advance(ctx, c, ctx[c].state, result)
                     ELSE ctx
    /\ Visit

\* A Parallel state starts its two branches on copies of its input
ParallelEnter ==
    /\ ctx["main"].st = "ready"
    /\ ctx["main"].state \in ParallelStates
    /\ LET b == ParallelBranches(ctx["main"].state)
           input == ctx["main"].data
       IN  ctx' = [ctx EXCEPT !["main"].st = "parallel",
                              !["b0"] = [state |-> b[1], data |-> input, st |-> "ready"],
                              !["b1"] = [state |-> b[2], data |-> input, st |-> "ready"]]
    /\ Visit
    /\ UNCHANGED <<stack, event, lam, trace, pushed, faults>>
    /\ UNCHANGED outsideWorkflow

\* A Parallel state ends when both branches have ended: its output is the
\* array of their outputs
ParallelJoin ==
    /\ ctx["main"].st = "parallel"
    /\ ctx["b0"].st = "done"
    /\ ctx["b1"].st = "done"
    /\ ctx' = [Advance(ctx, "main", ctx["main"].state,
                       Array(<<ctx["b0"].data, ctx["b1"].data>>))
                 EXCEPT !["b0"].st = "joined", !["b1"].st = "joined"]
    /\ Visit
    /\ UNCHANGED <<stack, event, lam, trace, pushed, faults>>
    /\ UNCHANGED outsideWorkflow

----------------------------------------------------------------------------
(* The Lambda handlers *)

\* Classifier: always returns a result
ClassifierHandler ==
    /\ lam["Classifier"].pc = "running"
    /\ \E r \in ClassifierResults(lam["Classifier"].job) :
          /\ Return("Classifier", r)
          /\ faults' = faults \cup
                (IF r.successful /\ r.query_class \in {"faq", "rag"}
                 THEN {} ELSE {"classification"})
    /\ UNCHANGED <<stack, event, pushed>>
    /\ UNCHANGED outsideWorkflow

\* Retrieval: queries the index; zero documents is a success
RetrievalHandler ==
    /\ lam["Retrieval"].pc = "running"
    /\ \E r \in RetrieveResults(lam["Retrieval"].job) :
          /\ Return("Retrieval", r)
          /\ faults' = faults \cup (IF r.successful THEN {} ELSE {"retrieval"})
    /\ UNCHANGED <<stack, event, pushed>>
    /\ UNCHANGED outsideWorkflow

\* Resource streaming: pushes the resources message of its job
ResourceStreamingHandler ==
    /\ lam["ResourceStreaming"].pc = "running"
    /\ LET job == lam["ResourceStreaming"].job
       IN  \/ /\ ValidStreamResourcesJob(job)
              /\ \E o \in DeliveryOutcomes :
                    Send(ResourcesMessage(job.query_id, job.content), o)
              /\ Return("ResourceStreaming", StageResult(TRUE))
           \/ /\ pushed' = pushed
              /\ faults' = faults \cup {"resources"}
              /\ Return("ResourceStreaming", StageResult(FALSE))
    /\ UNCHANGED <<stack, event>>
    /\ UNCHANGED outsideWorkflow

\* Streaming, a job that is null or lacks its content: nothing can be pushed
StreamingRejectJob ==
    /\ lam["Streaming"].pc \in {"resources", "start"}
    /\ ~ValidGenerateResponseJob(lam["Streaming"].job)
    /\ Return("Streaming", StageResult(FALSE))
    /\ faults' = faults \cup {"job"}
    /\ UNCHANGED <<stack, event, pushed>>
    /\ UNCHANGED outsideWorkflow

\* Streaming, step 1: push the supporting resources
StreamingPushResources ==
    /\ lam["Streaming"].pc = "resources"
    /\ LET job == lam["Streaming"].job
       IN  /\ ValidGenerateResponseJob(job)
           /\ \E o \in DeliveryOutcomes :
                 Send(ResourcesMessage(job.query_id, job.resources), o)
    /\ lam' = [lam EXCEPT !["Streaming"].pc = "start"]
    /\ UNCHANGED <<stack, event, ctx, trace, visited>>
    /\ UNCHANGED outsideWorkflow

\* Streaming, step 2: push answer-event start
StreamingPushStart ==
    /\ lam["Streaming"].pc = "start"
    /\ LET job == lam["Streaming"].job
       IN  /\ ValidGenerateResponseJob(job)
           /\ \E o \in DeliveryOutcomes : Send(AnswerEvent(job.query_id, "start"), o)
    /\ lam' = [lam EXCEPT !["Streaming"].pc = "generating"]
    /\ UNCHANGED <<stack, event, ctx, trace, visited>>
    /\ UNCHANGED outsideWorkflow

\* Streaming, step 3: one fragment per chunk of the model's output
StreamingPushFragment ==
    /\ lam["Streaming"].pc = "generating"
    /\ lam["Streaming"].sent < MaxFragments
    /\ \E o \in DeliveryOutcomes :
          Send(FragmentMessage(lam["Streaming"].job.query_id), o)
    /\ lam' = [lam EXCEPT !["Streaming"].sent = @ + 1]
    /\ UNCHANGED <<stack, event, ctx, trace, visited>>
    /\ UNCHANGED outsideWorkflow

\* Streaming, steps 4 and 5: push answer-event stop, return successful
StreamingPushStop ==
    /\ lam["Streaming"].pc = "generating"
    /\ \E o \in DeliveryOutcomes :
          Send(AnswerEvent(lam["Streaming"].job.query_id, "stop"), o)
    /\ Return("Streaming", StageResult(TRUE))
    /\ UNCHANGED <<stack, event>>
    /\ UNCHANGED outsideWorkflow

\* Streaming, the model invocation fails: push error, return not successful
StreamingGenerationFailure ==
    /\ lam["Streaming"].pc = "generating"
    /\ \E o \in DeliveryOutcomes :
          /\ pushed' = Append(pushed,
                              Pushed(ErrorMessage(lam["Streaming"].job.query_id), o))
          /\ faults' = faults \cup {"generation"}
                          \cup (IF o = "delivered" THEN {} ELSE {"delivery"})
    /\ Return("Streaming", StageResult(FALSE))
    /\ UNCHANGED <<stack, event>>
    /\ UNCHANGED outsideWorkflow

----------------------------------------------------------------------------

Next ==
    \/ \E c \in Contexts : PassState(c)
    \/ \E c \in Contexts : ChoiceState(c)
    \/ \E c \in Contexts : FailState(c)
    \/ \E c \in Contexts : TaskInvoke(c)
    \/ ParallelEnter
    \/ ParallelJoin
    \/ ClassifierHandler
    \/ RetrievalHandler
    \/ ResourceStreamingHandler
    \/ StreamingRejectJob
    \/ StreamingPushResources
    \/ StreamingPushStart
    \/ StreamingPushFragment
    \/ StreamingPushStop
    \/ StreamingGenerationFailure

Spec == Init /\ [][Next]_vars

\* The definition with one streaming task on its own
InitSingle == Init /\ stack = "single"

NextSingle ==
    \/ \E c \in Contexts : PassState(c)
    \/ \E c \in Contexts : ChoiceState(c)
    \/ \E c \in Contexts : FailState(c)
    \/ \E c \in Contexts : TaskInvoke(c)
    \/ ClassifierHandler
    \/ RetrievalHandler
    \/ StreamingRejectJob
    \/ StreamingPushResources
    \/ StreamingPushStart
    \/ StreamingPushFragment
    \/ StreamingPushStop
    \/ StreamingGenerationFailure

SpecSingle == InitSingle /\ [][NextSingle]_vars

\* the definition with one streaming task, the service taking every step
\* that is due and every invocation returning
SpecSingleFair == SpecSingle /\ WF_vars(NextSingle)

\* The definition with one streaming task, started for any of two queries
\* of any of two sessions
PassThroughEvents ==
    {MessageEvent(q, s) : q \in {"q1", "q2"}, s \in {"s1", "s2"}}

InitPassThrough ==
    /\ InitWorkflowOn(PassThroughEvents)
    /\ stack = "single"
    /\ sessionsTable = {}
    /\ connections = [c \in ConnIds |-> NoConnectionYet]
    /\ hook = HookInit
    /\ chat = ChatInit

SpecPassThrough == InitPassThrough /\ [][NextSingle]_vars

----------------------------------------------------------------------------
(* The event bus delivers an event a second time *)

\* the rule has matched a delivery of the event
Delivery(ev) ==
    [kind |-> "delivery", fn |-> "-", state |-> "-", payload |-> ev]

Deliveries == {i \in DOMAIN trace : trace[i].kind = "delivery"}

\* as Redeliver, with the second delivery of an event recognised and dropped
Redeliver_Dedup ==
    /\ ctx["main"].st = "done"
    /\ faults = {}
    /\ Deliveries = {}
    /\ trace' = Append(trace, Delivery(event))
    /\ UNCHANGED <<stack, event, ctx, lam, pushed, faults, visited>>
    /\ UNCHANGED outsideWorkflow

\* TriggerMessageProcessing: the rule matches on source and detailType only
\* and its target starts an execution with the event as input, so the same
\* event delivered again, after the execution it started has succeeded with
\* every push delivered, starts another execution of the definition. The
\* functions are invoked afresh: none had anything of the first execution
\* to keep. The history kept from here on is that of the new execution.
Redeliver ==
    /\ ctx["main"].st = "done"
    /\ faults = {}
    /\ Deliveries = {}
    /\ trace' = <<Delivery(event)>>
    /\ ctx' = [c \in Contexts |->
                 IF c = "main"
                 THEN [state |-> definition, data |-> event, st |-> "ready"]
                 ELSE NoBranch]
    /\ lam' = [f \in Functions |-> Idle]
    /\ UNCHANGED <<stack, event, pushed, faults, visited>>
    /\ UNCHANGED outsideWorkflow

\* the definition with one streaming task, with a second delivery
NextRedelivery ==
    \/ NextSingle
    \/ Redeliver

SpecRedelivery == InitSingle /\ [][NextRedelivery]_vars

----------------------------------------------------------------------------
(* A task is retried *)

Retries == {i \in DOMAIN trace : trace[i].kind = "retry"}

\* the functions that push to the client
PushBearing == {"Streaming", "ResourceStreaming"}

\* as RetriedFunctions, with retryOnServiceExceptions: false on the tasks of
\* the functions that push
RetriedFunctions_NotPushBearing == Functions \ PushBearing

\* tasks.LambdaInvoke is given lambdaFunction and outputPath only, so each
\* task keeps the construct's retryOnServiceExceptions default and carries a
\* Retry on the Lambda service exceptions
RetriedFunctions == Functions

\* The invocation of f fails with a Lambda service exception while f runs,
\* whatever f has pushed so far stays pushed, and the task's Retry invokes f
\* again with the same input. One retry per execution is followed.
RetryOnServiceException(f) ==
    /\ f \in RetriedFunctions
    /\ lam[f].pc \notin {"idle", "returned"}
    /\ ctx[lam[f].caller].st = "waiting"
    /\ Retries = {}
    /\ lam' = [lam EXCEPT ![f].pc = EntryPc(f), ![f].sent = 0]
    /\ trace' = Append(trace, [kind |-> "retry", fn |-> f,
                               state |-> ctx[lam[f].caller].state,
                               payload |-> lam[f].job])
    /\ UNCHANGED <<stack, event, ctx, pushed, faults, visited>>
    /\ UNCHANGED outsideWorkflow

\* the definition with one streaming task, with the retries of its tasks
NextRetry ==
    \/ NextSingle
    \/ \E f \in Functions : RetryOnServiceException(f)

SpecRetry == InitSingle /\ [][NextRetry]_vars

----------------------------------------------------------------------------
(* The session service and the client's connection *)

\* POST /session: a session with a fresh id and no connection handle
CreateSession(s) == PutItem(sessionsTable, SessionItem(s, NoConnection))

\* as Connect, with no integration on the route $connect: the API accepts
\* the connection itself
Connect_NoIntegration(c, s, who) ==
    [connections EXCEPT ![c] = [sessionId |-> s, st |-> "open", client |-> who,
                                found |-> Null, notified |-> "none"]]

\* a WebSocket handshake with ?sessionId=s reaches the route $connect
Connect(c, s, who) ==
    [connections EXCEPT ![c] = [sessionId |-> s, st |-> "handshake", client |-> who,
                                found |-> Null, notified |-> "none"]]

\* a client other than the hook creates a session
OtherCreatesSession ==
    /\ \E s \in FreshTokens : sessionsTable' = CreateSession(s)
    /\ UNCHANGED <<connections, hook, chat, workflowVars>>

\* a client other than the hook opens a WebSocket for some session id
OtherConnects ==
    /\ ConnIdLeft
    /\ \E s \in SessionTokens \cup {NonExistentSession} :
          connections' = Connect(NextConnId, s, "other")
    /\ UNCHANGED <<sessionsTable, hook, chat, workflowVars>>

\* ConnectHandler, first step: look the session up; without a session the
\* handshake is refused
ConnectHandlerGet(c) ==
    /\ connections[c].st = "handshake"
    /\ connections' = [connections EXCEPT ![c].st =
            IF GetSession(sessionsTable, connections[c].sessionId) # {}
            THEN "attach" ELSE "rejected"]
    /\ UNCHANGED <<sessionsTable, hook, chat, workflowVars>>

\* ConnectHandler, second step: attach the connection handle (last writer
\* wins); the connection is open
ConnectHandlerPut(c) ==
    /\ connections[c].st = "attach"
    /\ sessionsTable' = PutItem(sessionsTable, SessionItem(connections[c].sessionId, c))
    /\ connections' = [connections EXCEPT ![c].st = "open"]
    /\ UNCHANGED <<hook, chat, workflowVars>>

\* as CloseConnection, with the execution for the session cancelled
CloseConnection_Cancels(c) ==
    /\ connections[c].st = "open"
    /\ connections' = [connections EXCEPT ![c].st = "disconnecting"]
    /\ ctx' = IF ctx["main"].st \in {"done", "failed"} THEN ctx
              ELSE Abort(ctx, "main", ctx["main"].state)
    /\ UNCHANGED <<sessionsTable, hook, chat, stack, event, lam, trace, pushed, faults,
                   visited>>

\* an open connection is closed (by its client or by the network): the
\* route $disconnect is invoked
CloseConnection(c) ==
    /\ connections[c].st = "open"
    /\ connections' = [connections EXCEPT ![c].st = "disconnecting"]
    /\ UNCHANGED <<sessionsTable, hook, chat, workflowVars>>

\* DisconnectHandler, first step: find the session by its connection handle
DisconnectHandlerQuery(c) ==
    /\ connections[c].st = "disconnecting"
    /\ LET sessions == FindByConnectionHandle(sessionsTable, c)
       IN  connections' = [connections EXCEPT
                ![c].st = "clearing",
                ![c].found = IF sessions = {} THEN Null
                             ELSE CHOOSE x \in sessions : TRUE]
    /\ UNCHANGED <<sessionsTable, hook, chat, workflowVars>>

\* DisconnectHandler, second step: clear the handle of the session found
DisconnectHandlerClear(c) ==
    /\ connections[c].st = "clearing"
    /\ sessionsTable' =
          IF connections[c].found = Null THEN sessionsTable
          ELSE PutItem(sessionsTable, SessionItem(connections[c].found, NoConnection))
    /\ connections' = [connections EXCEPT ![c].st = "closed"]
    /\ UNCHANGED <<hook, chat, workflowVars>>

\* the hook gets a sessionId from createSession: websocketUrl changes and the
\* ws memo builds a new WebSocket for it (the socket of the previous url is
\* not closed)
HookNewSession(s) ==
    /\ sessionsTable' = CreateSession(s)
    /\ connections' = Connect(NextConnId, s, "hook")
    /\ hook' = [hook EXCEPT !.sessionId = s, !.ws = NextConnId]

\* sendMessage: ensure a session exists (the POST of the message itself
\* changes nothing here)
sendMessage ==
    /\ hook.sessionId = Null
    /\ ConnIdLeft
    /\ \E s \in FreshTokens : HookNewSession(s)
    /\ UNCHANGED <<chat, workflowVars>>

\* reconnect: create a new session
reconnect ==
    /\ ConnIdLeft
    /\ \E s \in FreshTokens : HookNewSession(s)
    /\ UNCHANGED <<chat, workflowVars>>

\* close: ws?.close(); setSessionId(null)
close ==
    /\ hook.ws # NoConnection
    /\ connections[hook.ws].st \notin {"handshake", "attach"}
    /\ connections' = [connections EXCEPT ![hook.ws].st =
            IF @ = "open" THEN "disconnecting" ELSE @]
    /\ hook' = [hook EXCEPT !.previous = IF hook.sessionId # Null
                                          THEN hook.sessionId ELSE @,
                            !.sessionId = Null, !.ws = NoConnection]
    /\ UNCHANGED <<sessionsTable, chat, workflowVars>>

\* handleOpen: the 'open' event of a socket the hook built
handleOpen(c) ==
    /\ connections[c].client = "hook"
    /\ connections[c].st = "open"
    /\ connections[c].notified = "none"
    /\ connections' = [connections EXCEPT ![c].notified = "open"]
    /\ hook' = [hook EXCEPT !.connectionState = "open"]
    /\ UNCHANGED <<sessionsTable, chat, workflowVars>>

\* handleClose: the 'close' event of a socket the hook built
handleClose(c) ==
    /\ connections[c].client = "hook"
    /\ connections[c].st \in {"rejected", "disconnecting", "clearing", "closed"}
    /\ connections[c].notified # "close"
    /\ connections' = [connections EXCEPT ![c].notified = "close"]
    /\ hook' = [hook EXCEPT !.connectionState = "closed",
                            !.previous = IF hook.sessionId # Null
                                          THEN hook.sessionId ELSE @,
                            !.sessionId = Null, !.ws = NoConnection]
    /\ UNCHANGED <<sessionsTable, chat, workflowVars>>

InitSessions == Init /\ stack = "single" /\ event = MessageEvent("q1", "s1")

NextSessions ==
    \/ OtherCreatesSession
    \/ OtherConnects
    \/ \E c \in ConnIds : ConnectHandlerGet(c)
    \/ \E c \in ConnIds : ConnectHandlerPut(c)
    \/ \E c \in ConnIds : CloseConnection(c)
    \/ \E c \in ConnIds : DisconnectHandlerQuery(c)
    \/ \E c \in ConnIds : DisconnectHandlerClear(c)
    \/ sendMessage
    \/ reconnect
    \/ close
    \/ \E c \in ConnIds : handleOpen(c)
    \/ \E c \in ConnIds : handleClose(c)

SpecSessions == InitSessions /\ [][NextSessions]_vars

----------------------------------------------------------------------------
(* An execution pushes while the client's connection comes and goes *)

\* the connection a post reaches the client on, if any: postToConnection
\* succeeds on an open connection only
Reaches(c) == c # NoConnection /\ connections[c].st = "open"

\* a step that pushes delivers exactly when the connection posted to is open
DeliveryFollowsConnection ==
    Len(pushed') > Len(pushed) =>
        pushed'[Len(pushed')].delivered = Reaches(pushed'[Len(pushed')].to)

\* the execution's own steps, with the session service behind the pushes
WorkflowStep == NextSingle /\ DeliveryFollowsConnection

\* session s1 exists and its client is connected on connection 1 when the
\* execution for its query q1 starts
InitPush ==
    /\ InitWorkflowOn({MessageEvent("q1", "s1")})
    /\ stack = "single"
    /\ sessionsTable = {SessionItem("s1", 1)}
    /\ connections = [c \in ConnIds |->
                         IF c = 1
                         THEN [sessionId |-> "s1", st |-> "open", client |-> "other",
                               found |-> Null, notified |-> "none"]
                         ELSE NoConnectionYet]
    /\ hook = HookInit
    /\ chat = ChatInit

\* the session's client, whose connection has gone, opens a WebSocket for
\* the same session again; one reconnect per execution is followed
ClientReconnects ==
    /\ connections[1].st \notin {"handshake", "attach", "open"}
    /\ \A c \in ConnIds \ {1} : connections[c].st = "free"
    /\ connections' = Connect(NextConnId, event.session_id, "other")
    /\ UNCHANGED <<sessionsTable, hook, chat, workflowVars>>

NextPush ==
    \/ WorkflowStep
    \/ ClientReconnects
    \/ \E c \in ConnIds : ConnectHandlerGet(c)
    \/ \E c \in ConnIds : ConnectHandlerPut(c)
    \/ \E c \in ConnIds : CloseConnection(c)
    \/ \E c \in ConnIds : DisconnectHandlerQuery(c)
    \/ \E c \in ConnIds : DisconnectHandlerClear(c)

SpecPush == InitPush /\ [][NextPush]_vars

\* the same without a reconnect: the client goes away and stays away
NextDisconnect ==
    \/ WorkflowStep
    \/ \E c \in ConnIds : CloseConnection(c)
    \/ \E c \in ConnIds : DisconnectHandlerQuery(c)
    \/ \E c \in ConnIds : DisconnectHandlerClear(c)

SpecDisconnect == InitPush /\ [][NextDisconnect]_vars

\* the state machine and the functions it has invoked keep taking steps
SpecDisconnectFair == SpecDisconnect /\ WF_vars(WorkflowStep)

----------------------------------------------------------------------------
(* The client's receive callback *)

\* as TryCatch, without the try block
TryCatch_Rethrow(threw) == IF threw THEN "thrown" ELSE "dispatched"

\* try { ... } catch (err) { ... }: an exception of the body is caught
TryCatch(threw) == IF threw THEN "caught" ELSE "dispatched"

\* the catch block reports: console.error; with the onValidationError option
\* also setError, and the callback when the error is a ZodError
ReportChannels(variant, isZodError) ==
    IF variant = "plain" THEN {"console.error"}
    ELSE {"console.error", "setError"}
            \cup (IF isZodError THEN {"onValidationError"} ELSE {})

\* handleMessage: the 'message' event with the payload Payloads[i]
handleMessage(i) ==
    /\ Len(hook.inbound) < MaxMessages
    /\ LET text == Payloads[i].text
           decoded == Decode(text)
           outcome == TryCatch(~decoded.ok)
       IN  hook' =
             CASE outcome = "dispatched" ->
                    [hook EXCEPT !.lastMessage = decoded.value,
                                 !.dispatched = Append(@, decoded.value),
                                 !.inbound = Append(@, [payload |-> i,
                                                         outcome |-> outcome])]
               [] outcome = "caught" ->
                    [hook EXCEPT !.reported = Append(@,
                                    [payload |-> i,
                                     channels |-> ReportChannels(hook.variant,
                                                                 JSONparse(text).ok)]),
                                 !.inbound = Append(@, [payload |-> i,
                                                         outcome |-> outcome])]
               [] OTHER ->
                    [hook EXCEPT !.inbound = Append(@, [payload |-> i,
                                                         outcome |-> outcome])]
    /\ UNCHANGED <<sessionsTable, connections, chat, workflowVars>>

InitWire ==
    /\ InitWorkflow
    /\ stack = "single"
    /\ event = MessageEvent("q1", "s1")
    /\ sessionsTable = {}
    /\ connections = [c \in ConnIds |-> NoConnectionYet]
    /\ hook \in {[HookInit EXCEPT !.variant = v] : v \in HookVariants}
    /\ chat = ChatInit

NextWire == \E i \in DOMAIN Payloads : handleMessage(i)

SpecWire == InitWire /\ [][NextWire]_vars

----------------------------------------------------------------------------
(* The chat: sending a message, handling what the server pushes *)

\* the query id the API answers the next accepted message with
IdLeft == Len(chat.accepted) < Cardinality(ChatQueryIds)
NextQueryId == IF chat.accepted = <<>> THEN "q1" ELSE "q2"

ChatUnchanged == UNCHANGED <<sessionsTable, connections, hook, workflowVars>>

\* the session id the session API answers the next creation with: a new one
\* each time
ChatSessionTokens == <<"s1", "s2", "s3", "s4">>
NextSessionToken == ChatSessionTokens[Len(chat.sessions) + 1]

\* the session id sendMessage of use-validated-websocket.ts posts with when
\* it has one: localSessionId = sessionId
PostsAtOnce == chat.variant = "delegated" /\ chat.sessionId # Null

\* as handleSend, the query put into the store when the message is sent
handleSend_Optimistic ==
    /\ chat.call = "none"
    /\ chat.sends < MaxSends
    /\ chat.state.chatState = "idle"
    /\ IdLeft
    /\ chat' = [chat EXCEPT
                  !.sends = @ + 1,
                  !.settled = "pending",
                  !.call = IF PostsAtOnce THEN "sendMessage" ELSE "createSession",
                  !.posts = IF PostsAtOnce THEN Append(@, chat.sessionId) ELSE @,
                  !.state = addQuery(setChatState(@, "sending"),
                                     NewQuery("hello", NextQueryId))]
    /\ ChatUnchanged

\* the user sends a message: ChatInput.handleSend (enabled iff chatState is
\* idle, sets 'sending' in front of the delegated version), then sendMessage
\* of the hook up to its first await
handleSend ==
    /\ chat.call = "none"
    /\ chat.sends < MaxSends
    /\ chat.state.chatState = "idle"
    /\ chat' = [chat EXCEPT
                  !.sends = @ + 1,
                  !.settled = "pending",
                  !.call = IF PostsAtOnce THEN "sendMessage" ELSE "createSession",
                  !.posts = IF PostsAtOnce THEN Append(@, chat.sessionId) ELSE @,
                  !.state = IF chat.variant = "delegated"
                            THEN setChatState(@, "sending") ELSE @]
    /\ ChatUnchanged

\* createSession returns (ok) or fails, and sendMessage goes on from its await
createSessionSettled(ok) ==
    /\ chat.call = "createSession"
    /\ Len(chat.sessions) < Len(ChatSessionTokens)
    /\ chat' =
         CASE chat.variant = "inline" /\ ok ->
                [chat EXCEPT !.sessionId = NextSessionToken,
                             !.sessions = Append(@, NextSessionToken),
                             !.posts = Append(@, NextSessionToken),
                             !.state = setChatState(@, "sending"),
                             !.call = "sendMessage"]
           [] chat.variant = "inline" /\ ~ok ->
                [chat EXCEPT !.state = addError(@, ApiError("Failed to create session")),
                             !.settled = "sessionFailed",
                             !.call = "none"]
           [] chat.variant = "delegated" /\ ok ->
                [chat EXCEPT !.sessionId = NextSessionToken,
                             !.sessions = Append(@, NextSessionToken),
                             !.posts = Append(@, NextSessionToken),
                             !.state = setSessionId(@, NextSessionToken),
                             !.call = "sendMessage"]
           [] OTHER -> [chat EXCEPT !.settled = "sessionFailed", !.call = "none"]
    /\ ChatUnchanged

\* the send API accepts the message with a query id: onSuccess
onSuccess ==
    /\ chat.call = "sendMessage"
    /\ IdLeft
    /\ LET accepted == setCurrentQueryId(
                           addQuery(chat.state, NewQuery("hello", NextQueryId)),
                           NextQueryId)
       IN  chat' = [chat EXCEPT
                      !.state = IF chat.variant = "inline"
                                THEN setChatState(accepted, "waiting_for_response")
                                ELSE accepted,
                      !.call = "none",
                      !.settled = "accepted",
                      !.accepted = Append(@, NextQueryId)]
    /\ ChatUnchanged

\* the send API call fails: onError
onError ==
    /\ chat.call = "sendMessage"
    /\ chat' = [chat EXCEPT
                  !.state = IF chat.variant = "inline"
                            THEN setChatState(
                                     addError(@, ApiError("Failed to send message")),
                                     "idle")
                            ELSE @,
                  !.settled = "sendFailed",
                  !.call = "none"]
    /\ ChatUnchanged

\* messageHandler: the switch in its try block, and the catch block
messageHandler(d) ==
    /\ chat.handled < MaxHandled
    /\ LET threw == Throws(chat.variant, d.message)
       IN  chat' = [chat EXCEPT
                      !.state =
                          CASE ~threw /\ chat.variant = "inline" ->
                                  Switch_Inline(@, d.message)
                            [] ~threw /\ chat.variant = "delegated" ->
                                  Switch_Delegated(@, d.message)
                            [] threw /\ chat.variant = "inline" ->
                                  addError(@, ProcessingError)
                            [] OTHER -> @,
                      !.boundary = IF threw /\ chat.variant = "delegated"
                                   THEN Append(@, BoundaryError) ELSE @,
                      !.handled = @ + 1,
                      !.last = [sent |-> d.sent, message |-> d.message,
                                threw |-> threw],
                      !.fragments =
                          IF /\ d.message.responseType = "fragment"
                             /\ ~threw
                             /\ HasQuery(chat.state, QueryIdOf(d.message))
                          THEN [@ EXCEPT ![QueryIdOf(d.message)] =
                                            Append(@, d.message.content.fragment)]
                          ELSE @]
    /\ ChatUnchanged

\* the states the socket of the session is reported in
ConnectionStates == {"open", "closed"}

\* the socket of the session changes state: setConnectionState
handleConnectionStateChange(c) ==
    /\ chat.sessionId # Null
    /\ c # chat.state.connectionState
    /\ chat' = [chat EXCEPT !.state = setConnectionState(@, c)]
    /\ ChatUnchanged

\* the store is reset
resetStore ==
    /\ chat.state # initialState
    /\ chat' = [chat EXCEPT !.state = reset(@),
                             !.fragments = [q \in ChatQueryIds |-> <<>>]]
    /\ ChatUnchanged

InitChat ==
    /\ InitWorkflow
    /\ stack = "single"
    /\ event = MessageEvent("q1", "s1")
    /\ sessionsTable = {}
    /\ connections = [c \in ConnIds |-> NoConnectionYet]
    /\ hook = HookInit
    /\ chat \in {[ChatInit EXCEPT !.variant = v] : v \in ChatVariants}

NextChat ==
    \/ handleSend
    \/ \E ok \in BOOLEAN : createSessionSettled(ok)
    \/ onSuccess
    \/ onError
    \/ \E d \in Dispatches : messageHandler(d)
    \/ \E c \in ConnectionStates : handleConnectionStateChange(c)
    \/ resetStore

SpecChat == InitChat /\ [][NextChat]_vars

\* the chat of use-websocket-chat.ts alone
InitDelegated == InitChat /\ chat.variant = "delegated"
SpecDelegated == InitDelegated /\ [][NextChat]_vars

\* a mutation that was started settles: the API answers or the call fails
ApiCallSettles ==
    \/ \E ok \in BOOLEAN : createSessionSettled(ok)
    \/ onSuccess
    \/ onError

\* the chat of use-websocket-chat.ts, every API call settling in the end;
\* what the server pushes and what the user does is left open
SpecDelegatedFair == SpecDelegated /\ WF_vars(ApiCallSettles)

\* The store is a module-level object: every component can call its
\* actions, in any order and with any query id. One action of the model per
\* action of the store; storeCalls counts the calls.

useChatStore_addQuery(q) ==
    /\ chat.storeCalls < MaxStoreCalls
    /\ chat' = [chat EXCEPT !.state = addQuery(@, NewQuery("hi", q)),
                             !.storeCalls = @ + 1]
    /\ ChatUnchanged

useChatStore_updateQueryResponse(q) ==
    /\ chat.storeCalls < MaxStoreCalls
    /\ chat' = [chat EXCEPT !.state = updateQueryResponse(@, q, "Hello"),
                             !.storeCalls = @ + 1]
    /\ ChatUnchanged

useChatStore_updateQueryResources(q) ==
    /\ chat.storeCalls < MaxStoreCalls
    /\ chat' = [chat EXCEPT !.state = updateQueryResources(@, q, Items(<<>>)),
                             !.storeCalls = @ + 1]
    /\ ChatUnchanged

useChatStore_updateQueryStatus(q) ==
    /\ chat.storeCalls < MaxStoreCalls
    /\ chat' = [chat EXCEPT !.state = updateQueryStatus(@, q, "completed"),
                             !.storeCalls = @ + 1]
    /\ ChatUnchanged

useChatStore_setQueryError(q) ==
    /\ chat.storeCalls < MaxStoreCalls
    /\ chat' = [chat EXCEPT !.state = setQueryError(@, q, QueryError("failed")),
                             !.storeCalls = @ + 1]
    /\ ChatUnchanged

useChatStore_clearQueryError(q) ==
    /\ chat.storeCalls < MaxStoreCalls
    /\ chat' = [chat EXCEPT !.state = clearQueryError(@, q),
                             !.storeCalls = @ + 1]
    /\ ChatUnchanged

useChatStore_incrementQueryRetry(q) ==
    /\ chat.storeCalls < MaxStoreCalls
    /\ chat' = [chat EXCEPT !.state = incrementQueryRetry(@, q),
                             !.storeCalls = @ + 1]
    /\ ChatUnchanged

useChatStore_clearHistory ==
    /\ chat.storeCalls < MaxStoreCalls
    /\ chat' = [chat EXCEPT !.state = clearHistory(@),
                             !.fragments = [q \in ChatQueryIds |-> <<>>],
                             !.storeCalls = @ + 1]
    /\ ChatUnchanged

\* a call of one of the per-query update actions of the store
UpdateCall(q) ==
    \/ useChatStore_updateQueryResponse(q)
    \/ useChatStore_updateQueryResources(q)
    \/ useChatStore_updateQueryStatus(q)
    \/ useChatStore_setQueryError(q)
    \/ useChatStore_clearQueryError(q)
    \/ useChatStore_incrementQueryRetry(q)

NextStore ==
    \/ \E q \in ChatQueryIds : useChatStore_addQuery(q)
    \/ \E q \in ChatQueryIds : UpdateCall(q)
    \/ useChatStore_clearHistory
    \/ resetStore
    \/ \E d \in Dispatches : messageHandler(d)

\* the store under the calls of its actions and the message handler of
\* use-websocket-chat.ts
SpecStore == InitDelegated /\ [][NextStore]_vars

----------------------------------------------------------------------------
(* Reading the histories *)

InvokesOf(f) == {i \in DOMAIN trace : trace[i].kind = "invoke" /\ trace[i].fn = f}
ReturnsOf(f) == {i \in DOMAIN trace : trace[i].kind = "return" /\ trace[i].fn = f}

ClassifierReturned == ReturnsOf("Classifier") # {}
ClassifierOutput == trace[CHOOSE i \in ReturnsOf("Classifier") : TRUE].payload

Succeeded == ctx["main"].st = "done"
Failed == ctx["main"].st = "failed"

\* the label of a pushed message: its responseType, or start / stop
Label(m) == IF m.responseType = "answer-event" THEN m.event ELSE m.responseType

\* the labels of the pushes for query q, in emission order
PushedFor(q) == SelectSeq(pushed, LAMBDA p : p.msg.queryId = q)
Labels(seq) == [i \in DOMAIN seq |-> Label(seq[i].msg)]

\* first, start, fragment*, stop
IsResourcesStartFragmentsStop(labels, first) ==
    /\ Len(labels) >= 3
    /\ labels[1] = first
    /\ labels[2] = "start"
    /\ labels[Len(labels)] = "stop"
    /\ \A k \in 3..(Len(labels) - 1) : labels[k] = "fragment"

\* Streaming has returned successful=true for a job of query q
StreamingSucceededFor(q) ==
    \E i \in ReturnsOf("Streaming") :
        /\ trace[i].payload.successful
        /\ \E j \in InvokesOf("Streaming") :
              /\ j < i
              /\ trace[j].payload.type = "GenerateResponseJob"
              /\ trace[j].payload.query_id = q

FaqStates == {"ParallelResourceAndStreaming", "SelectResourceStreamingJobFaq",
              "ResourceStreamingTaskFaq", "CheckResourceStreamingSuccessFaq",
              "ResourceStreamingFailedFaq", "ResourceStreamingSuccessFaq",
              "SelectGenerateResponseJobFaq", "StreamingTaskFaq",
              "CheckStreamingSuccessFaq", "StreamingFailedFaq", "StreamingSuccessFaq",
              "CheckAllParallelResults", "AllParallelTasksSuccessful",
              "ParallelTasksFailed"}

RagStates == {"SelectRetrieveJob", "RetrievalTaskRag", "ParallelRagStreaming",
              "SelectResourceStreamingJobRag", "ResourceStreamingTaskRag",
              "CheckResourceStreamingSuccessRag", "ResourceStreamingFailedRag",
              "ResourceStreamingSuccessRag", "SelectGenerateResponseJobRag",
              "StreamingTaskRag", "CheckStreamingSuccessRag", "StreamingFailedRag",
              "StreamingSuccessRag"}

----------------------------------------------------------------------------
(* Claims *)

\* C1: for every queryId Q, a fragment for Q that the client receives is
\* preceded by a resources message (documents or faq) for Q that the client
\* received; stated for the runs in which every push was delivered.
C1_NoFragmentBeforeResources ==
    "delivery" \notin faults =>
        \A q \in QueryIds : \A i \in DOMAIN Received :
            (Received[i].msg.responseType = "fragment" /\ Received[i].msg.queryId = q)
                => \E j \in 1..(i - 1) :
                      /\ Received[j].msg.responseType \in {"documents", "faq"}
                      /\ Received[j].msg.queryId = q

\* C2: once BranchOnQueryClass has chosen, query_class 'faq' has led into the
\* FAQ branch only, 'rag' into the RAG branch only, and every other value to
\* ClassificationFailed with no Retrieval, Streaming or ResourceStreaming
\* invocation and no state of either branch entered.
C2_BranchSelection ==
    (ClassifierReturned /\ ctx["main"].state \notin {"ClassifierTask", "BranchOnQueryClass"})
        => LET qc == ClassifierOutput.query_class
           IN  CASE qc = "faq" ->
                        /\ visited \cap FaqStates # {}
                        /\ visited \cap (RagStates \cup {"ClassificationFailed"}) = {}
                 [] qc = "rag" ->
                        /\ visited \cap RagStates # {}
                        /\ visited \cap (FaqStates \cup {"ClassificationFailed"}) = {}
                 [] OTHER ->
                        /\ ctx["main"].state = "ClassificationFailed"
                        /\ ~Succeeded
                        /\ visited \cap (FaqStates \cup RagStates) = {}
                        /\ InvokesOf("Retrieval") = {}
                        /\ InvokesOf("Streaming") = {}
                        /\ InvokesOf("ResourceStreaming") = {}

\* C2 witness: a query_class that is neither class nor null has ended the
\* execution in ClassificationFailed.
C2_Witness ==
    /\ ClassifierReturned
    /\ ClassifierOutput.query_class = "FAQ"
    /\ Failed
    /\ ctx["main"].state = "ClassificationFailed"

C4_FaqPushSequence ==
    (ClassifierReturned /\ ClassifierOutput.successful
                        /\ ClassifierOutput.query_class = "faq")
        => /\ InvokesOf("Retrieval") = {}
           /\ Succeeded =>
                IsResourcesStartFragmentsStop(Labels(PushedFor(event.query_id)), "faq")

\* C5: every invocation of Streaming by StreamingTaskRag comes after a return
\* of Retrieval, and its input is the generate_response_job of that return,
\* not the template job of the Classifier's result.
C5_StreamingAfterRetrieval ==
    \A i \in InvokesOf("Streaming") :
        trace[i].state = "StreamingTaskRag" =>
            /\ \E j \in ReturnsOf("Retrieval") :
                  /\ j < i
                  /\ trace[i].payload = trace[j].payload.generate_response_job
            /\ trace[i].payload # ClassifierOutput.generate_response_job

\* C5 witness: StreamingTaskRag has invoked Streaming with a job carrying the
\* retrieved documents.
C5_Witness ==
    \E i \in InvokesOf("Streaming") :
        /\ trace[i].state = "StreamingTaskRag"
        /\ trace[i].payload.type = "GenerateResponseJob"
        /\ trace[i].payload.resources = Documents(MaxDocs)

\* C6: when the Classifier has returned successful=false or query_class=null,
\* the Classifier is invoked no second time, neither Retrieval nor Streaming
\* is invoked, and the execution does not succeed.
C6_ClassifierFailureIsTerminal ==
    (ClassifierReturned /\ (~ClassifierOutput.successful
                              \/ ClassifierOutput.query_class = Null))
        => /\ Cardinality(InvokesOf("Classifier")) = 1
           /\ InvokesOf("Retrieval") = {}
           /\ InvokesOf("Streaming") = {}
           /\ ~Succeeded

\* C7: when Retrieval has returned successful=false, Retrieval is invoked no
\* second time, Streaming is not invoked, and the execution does not succeed.
C7_RetrievalFailureIsTerminal ==
    (\E j \in ReturnsOf("Retrieval") : ~trace[j].payload.successful)
        => /\ Cardinality(InvokesOf("Retrieval")) = 1
           /\ InvokesOf("Streaming") = {}
           /\ ~Succeeded

\* C8: after Streaming has returned, no function is invoked any more, the
\* execution is in the Choice state after the task or in one of its two
\* targets, and it ends failed in StreamingFailedFaq / StreamingFailedRag when
\* the result is successful=false and succeeded in StreamingSuccessFaq /
\* StreamingSuccessRag when it is successful=true.
C8_StreamingResultDecidesTerminal ==
    \A i \in ReturnsOf("Streaming") :
        LET faq == trace[i].state = "StreamingTaskFaq"
            check == IF faq THEN "CheckStreamingSuccessFaq" ELSE "CheckStreamingSuccessRag"
            failed == IF faq THEN "StreamingFailedFaq" ELSE "StreamingFailedRag"
            success == IF faq THEN "StreamingSuccessFaq" ELSE "StreamingSuccessRag"
        IN  /\ \A j \in DOMAIN trace : j > i => trace[j].kind # "invoke"
            /\ ctx["main"].state \in {check, failed, success}
            /\ ctx["main"].state = failed => ~trace[i].payload.successful
            /\ ctx["main"].state = success => trace[i].payload.successful
            /\ Ended => IF trace[i].payload.successful
                        THEN Succeeded /\ ctx["main"].state = success
                        ELSE Failed /\ ctx["main"].state = failed

\* C8 witness: Streaming returned successful=false in the FAQ branch and the
\* execution has ended in StreamingFailedFaq.
C8_Witness ==
    /\ Failed
    /\ ctx["main"].state = "StreamingFailedFaq"
    /\ \E i \in ReturnsOf("Streaming") : ~trace[i].payload.successful

\* the state an execution ends in when nothing goes wrong
TerminalWithoutFault ==
    IF stack = "single"
    THEN IF ClassifierOutput.query_class = "faq"
         THEN "StreamingSuccessFaq" ELSE "StreamingSuccessRag"
    ELSE IF ClassifierOutput.query_class = "faq"
         THEN "AllParallelTasksSuccessful" ELSE "ParallelRagStreaming"

RetrievedNothing ==
    \E j \in ReturnsOf("Retrieval") :
        /\ trace[j].payload.successful
        /\ trace[j].payload.generate_response_job.resources = Documents(0)

Output == ctx["main"].data

\* a value is the array of the results of two parallel branches
IsBranchResultArray(v) == v.type = "Array" /\ Len(v.items) = 2

\* C11: the output of a succeeded execution is the array of the results of
\* the two parallel branches (resource streaming, response streaming), and
\* every element has successful=true.
C11_OutputIsArrayOfSuccessfulResults ==
    Succeeded =>
        /\ IsBranchResultArray(Output)
        /\ \A i \in {1, 2} : Output.items[i] = StageResult(TRUE)

\* C12: an execution started with an input that lacks required fields never
\* succeeds: after the Classifier it is in BranchOnQueryClass or in
\* ClassificationFailed, no other stage is invoked, and it ends failed.
C12_InvalidInputFails ==
    ~ValidEvent(event) =>
        /\ ~Succeeded
        /\ ctx["main"].state \in {"ClassifierTask", "BranchOnQueryClass",
                                  "ClassificationFailed"}
        /\ \A i \in DOMAIN trace : trace[i].fn = "Classifier"
        /\ pushed = <<>>
        /\ Ended => Failed /\ ctx["main"].state = "ClassificationFailed"

\* C12 witness: an execution started with only query_id has ended failed in
\* ClassificationFailed.
C12_Witness ==
    /\ DOMAIN event = {"type", "query_id"}
    /\ Failed
    /\ ctx["main"].state = "ClassificationFailed"

C14_ReconnectKeepsSession ==
    hook.previous # Null =>
        /\ GetSession(sessionsTable, hook.previous) # {}
        /\ hook.sessionId # Null => hook.sessionId = hook.previous

InboundInvalid == SelectSeq(hook.inbound, LAMBDA e : Payloads[e.payload].invalid)
InboundValid == SelectSeq(hook.inbound, LAMBDA e : ~Payloads[e.payload].invalid)

\* C16: no exception escapes handleMessage; the message handler has been
\* invoked for the valid payloads only, once each and in order, later valid
\* ones included; every invalid payload has been reported once and never
\* dispatched; lastMessage is the body of the last valid payload, or null.
C16_InvalidPayloadsAreDropped ==
    /\ \A k \in DOMAIN hook.inbound : hook.inbound[k].outcome # "thrown"
    /\ Len(hook.dispatched) = Len(InboundValid)
    /\ \A k \in DOMAIN hook.dispatched :
          hook.dispatched[k] = Decode(Payloads[InboundValid[k].payload].text).value
    /\ Len(hook.reported) = Len(InboundInvalid)
    /\ \A k \in DOMAIN hook.reported :
          /\ hook.reported[k].payload = InboundInvalid[k].payload
          /\ "console.error" \in hook.reported[k].channels
    /\ hook.lastMessage = IF hook.dispatched = <<>> THEN NoMessage
                          ELSE hook.dispatched[Len(hook.dispatched)]

\* C16 witness: a payload that is not JSON was received and dropped, and the
\* valid payload after it was dispatched.
C16_Witness ==
    /\ Len(hook.inbound) = 2
    /\ Payloads[hook.inbound[1].payload].text = NotJsonText
    /\ hook.inbound[2].outcome = "dispatched"
    /\ Len(hook.reported) = 1
    /\ hook.lastMessage = hook.dispatched[1]

\* the last payload received is the encoding of a variant of the data model
LastInboundIsVariant ==
    /\ hook.inbound # <<>>
    /\ hook.inbound[Len(hook.inbound)].payload <= Len(DataModelMessages)

LastInboundVariant ==
    DataModelMessages[hook.inbound[Len(hook.inbound)].payload]

\* C17: when the payload received last is the encoding of a variant of
\* MessageUnion, it has been decoded and dispatched, and the decoded value is
\* the variant itself, with no field lost or altered.
C17_SchemaRoundTrip ==
    LastInboundIsVariant =>
        /\ hook.inbound[Len(hook.inbound)].outcome = "dispatched"
        /\ hook.lastMessage = LastInboundVariant.msg

\* the payload of a task is a job (not null)
IsJob(payload) == payload.type \in {"RetrieveJob", "GenerateResponseJob",
                                     "StreamResourcesJob"}

ReceivedOf(k) == {i \in DOMAIN Received : Received[i].msg.responseType = k}

\* the answer events e the client has received
ReceivedEvents(e) ==
    {i \in ReceivedOf("answer-event") : Received[i].msg.event = e}

\* C19: when an event that was processed successfully is delivered again,
\* the client receives the resources, the start and the stop of its query at
\* most once over both deliveries, and no more fragments than one answer has.
C19_RedeliveryDoesNotDuplicate ==
    Deliveries # {} =>
        /\ Cardinality(ReceivedOf("documents") \cup ReceivedOf("faq")) <= 1
        /\ Cardinality(ReceivedEvents("start")) <= 1
        /\ Cardinality(ReceivedEvents("stop")) <= 1
        /\ Cardinality(ReceivedOf("fragment")) <= MaxFragments

\* C20: when a task is retried, the client still receives no second
\* resources message and no second start for the query, and no more
\* fragments than one invocation of the stage sends.
C20_RetryDoesNotRedeliver ==
    Retries # {} =>
        /\ Cardinality(ReceivedOf("documents") \cup ReceivedOf("faq")) <= 1
        /\ Cardinality(ReceivedEvents("start")) <= 1
        /\ Cardinality(ReceivedOf("fragment")) <= MaxFragments

\* Streaming has begun for the query and the session holds no open connection
StreamingWithoutConnection ==
    /\ lam["Streaming"].pc \notin {"idle", "returned"}
    /\ ~Reaches(PostTarget(event.session_id))

\* the execution has ended, and if it failed it failed for something else
\* than a push that was not delivered
EndedOnItsOwn ==
    \/ Succeeded
    \/ Failed /\ faults \ {"delivery"} # {}

LastPushed == pushed[Len(pushed)]

RECURSIVE Concatenation(_)
Concatenation(fs) == IF fs = <<>> THEN "" ELSE fs[1] \o Concatenation(Tail(fs))

Handles_Message == chat'.handled = chat.handled + 1

\* the step is the start or the stop event of a query that is in the store
HandlesEvent(e, q) ==
    /\ Handles_Message
    /\ chat'.last.message.responseType = "answer-event"
    /\ chat'.last.message.event = e
    /\ chat'.last.message.queryId = q
    /\ HasQuery(chat.state, q)

\* the step puts a record for q into the store
Creates(q) == ~HasQuery(chat.state, q) /\ HasQuery(chat'.state, q)

\* C24: the chat state of one exchange: idle at first, sending once the
\* submission request is pending, waiting_for_response when the API has
\* returned the query id (the query then has status sent), streaming from
\* the start event and through the fragments, idle after the stop event; the
\* status of the query is streaming on start and completed on stop.
C24_ChatStateLifecycle ==
    /\ chat.state.chatState = "idle"
    /\ [][/\ (chat.call # "sendMessage" /\ chat'.call = "sendMessage")
                => chat'.state.chatState = "sending"
          /\ \A q \in ChatQueryIds :
                /\ Creates(q) =>
                      /\ chat'.state.chatState = "waiting_for_response"
                      /\ chat'.state.queries[q].status = "sent"
                /\ HandlesEvent("start", q) =>
                      /\ chat'.state.chatState = "streaming"
                      /\ chat'.state.queries[q].status = "streaming"
                /\ HandlesEvent("stop", q) =>
                      /\ chat'.state.chatState = "idle"
                      /\ chat'.state.queries[q].status = "completed"
          /\ (/\ Handles_Message
              /\ chat'.last.message.responseType = "fragment"
              /\ chat.state.chatState = "streaming")
                => chat'.state.chatState = "streaming"]_vars

\* the step is the send API accepting the message with the query id q
Accepts(q) == chat'.accepted = Append(chat.accepted, q)

\* C25: when the API accepts a message with the query id q, exactly one
\* record is added to the store: queries[q], with the submitted text, the id
\* q, type outbound, status sent and empty content; currentQueryId is q and
\* queryOrder holds q; and no record is created at any other step.
C25_AcceptedSendCreatesTheQuery ==
    [][\A q \in ChatQueryIds :
          /\ Creates(q) => Accepts(q)
          /\ Accepts(q) =>
                /\ Creates(q)
                /\ chat'.state.queries[q].query = "hello"
                /\ chat'.state.queries[q].queryId = q
                /\ chat'.state.queries[q].type = "outbound"
                /\ chat'.state.queries[q].status = "sent"
                /\ chat'.state.queries[q].response.content = ""
                /\ \A p \in ChatQueryIds \ {q} :
                      chat'.state.queries[p] = chat.state.queries[p]
                /\ chat'.state.currentQueryId = q
                /\ Len(chat'.state.queryOrder) = Len(chat.state.queryOrder) + 1
                /\ chat'.state.queryOrder[Len(chat'.state.queryOrder)] = q]_vars

\* C25 witness: the API has accepted the first message with q1; the store
\* of the delegated version holds the one record, sent and still empty.
C25_Witness ==
    /\ chat.variant = "delegated"
    /\ chat.accepted = <<"q1">>
    /\ chat.call = "none"
    /\ HasQuery(chat.state, "q1")
    /\ ~HasQuery(chat.state, "q2")
    /\ chat.state.queries["q1"].status = "sent"
    /\ chat.state.currentQueryId = "q1"
    /\ chat.state.queryOrder = <<"q1">>

\* the step is the send API call failing: the call ends and the API has
\* answered with no query id
SendFails ==
    /\ chat.call = "sendMessage"
    /\ chat'.call = "none"
    /\ chat'.accepted = chat.accepted

\* C26: when the send API call fails, chatState goes from sending back to
\* idle, exactly one error is appended to the store's errors, of type api
\* and retryable, and no query record is added.
C26_FailedSendIsReported ==
    [][SendFails =>
          /\ chat.state.chatState = "sending" => chat'.state.chatState = "idle"
          /\ Len(chat'.state.errors) = Len(chat.state.errors) + 1
          /\ SubSeq(chat'.state.errors, 1, Len(chat.state.errors)) = chat.state.errors
          /\ chat'.state.errors[Len(chat'.state.errors)].type = "api"
          /\ chat'.state.errors[Len(chat'.state.errors)].retryable
          /\ chat'.state.queries = chat.state.queries
          /\ chat'.state.queryOrder = chat.state.queryOrder]_vars

\* the step hands the handler a message whose processing throws
HandlesThrowing == Handles_Message /\ chat'.last.threw

\* C27: when the processing of a message throws inside the handler, the
\* handler still returns, one error of type websocket that is not retryable
\* is added to the store's errors, and the queries are left as they were.
C27_ProcessingErrorIsStored ==
    [][HandlesThrowing =>
          /\ Len(chat'.state.errors) = Len(chat.state.errors) + 1
          /\ chat'.state.errors[Len(chat'.state.errors)].type = "websocket"
          /\ ~chat'.state.errors[Len(chat'.state.errors)].retryable
          /\ chat'.state.queries = chat.state.queries
          /\ chat'.state.queryOrder = chat.state.queryOrder]_vars

\* the step is reset() on a store that is not in its initial state
ResetStep ==
    /\ chat.state # initialState
    /\ chat' = [chat EXCEPT !.state = reset(@),
                            !.fragments = [q \in ChatQueryIds |-> <<>>]]

\* C28: after reset() every field of the store has its initial value:
\* sessionId, sessionStatus, connectionState, chatState, currentQueryId,
\* queries, queryOrder, errors and draftMessage.
C28_ResetRestoresInitialState ==
    [][ResetStep =>
          /\ chat'.state.sessionId = initialState.sessionId
          /\ chat'.state.sessionStatus = initialState.sessionStatus
          /\ chat'.state.connectionState = initialState.connectionState
          /\ chat'.state.chatState = initialState.chatState
          /\ chat'.state.currentQueryId = initialState.currentQueryId
          /\ chat'.state.queries = initialState.queries
          /\ chat'.state.queryOrder = initialState.queryOrder
          /\ chat'.state.errors = initialState.errors
          /\ chat'.state.draftMessage = initialState.draftMessage]_vars

\* the step hands the handler a resources message the server sent for a
\* query that is in the store
HandlesResources(q) ==
    /\ Handles_Message
    /\ chat'.last.sent \in ServerMessages
    /\ chat'.last.sent.responseType \in {"documents", "faq"}
    /\ chat'.last.sent.queryId = q
    /\ HasQuery(chat.state, q)

\* the entries of a resources message: its documents, or its one faq
EntriesOf(message) ==
    IF message.responseType = "documents" THEN message.content.documents
    ELSE <<message.content.faq>>

\* the resource item is the entry: a document with the entry's id, title
\* and content, or a faq with the entry's question and answer
IsItemOf(item, entry) ==
    /\ item.type \in {"document", "faq"}
    /\ "documentId" \in DOMAIN entry =>
          \/ /\ item.type = "document"
             /\ item.data.documentId = entry.documentId
             /\ item.data.title = entry.title
             /\ item.data.content = entry.content
          \/ /\ item.type = "faq"
             /\ item.data.faqId = entry.documentId
    /\ "question" \in DOMAIN entry =>
          /\ item.type = "faq"
          /\ item.data.question = entry.question
          /\ item.data.answer = entry.answer

\* C29: when a validated documents or faq message for a query of the store
\* is handled, the query's resources become one resource item per entry of
\* the message, in the order of the message, each typed document or faq,
\* and the handling raises no processing error.
C29_ResourcesReplaced ==
    [][\A q \in ChatQueryIds :
          HandlesResources(q) =>
              LET resources == chat'.state.queries[q].resources
                  entries == EntriesOf(chat'.last.sent)
              IN  /\ ~chat'.last.threw
                  /\ chat'.boundary = chat.boundary
                  /\ chat'.state.errors = chat.state.errors
                  /\ "items" \in DOMAIN resources
                  /\ Len(resources.items) = Len(entries)
                  /\ \A i \in DOMAIN entries :
                        IsItemOf(resources.items[i], entries[i])]_vars

\* the step hands the handler an error message of the server
HandlesServerError ==
    /\ Handles_Message
    /\ chat'.last.sent \in ServerMessages
    /\ chat'.last.sent.responseType = "error"

\* C30: when a validated error message that the server sent about a query
\* of the store is handled, the query's error is set to the server's
\* message and its status becomes failed; an error message without a query
\* id changes the status of no query.
C30_ErrorFailsTheQuery ==
    [][HandlesServerError =>
          /\ \A q \in ChatQueryIds :
                (QueryIdOf(chat'.last.sent) = q /\ HasQuery(chat.state, q)) =>
                    /\ chat'.state.queries[q].error.set
                    /\ chat'.state.queries[q].error.message =
                           chat'.last.sent.content.message
                    /\ chat'.state.queries[q].status = "failed"
          /\ QueryIdOf(chat'.last.sent) = Undefined =>
                \A q \in ChatQueryIds :
                    HasQuery(chat.state, q) =>
                        chat'.state.queries[q].status = chat.state.queries[q].status]_vars

\* the exchange of the message submitted last has ended: the session could
\* not be created, the submission request failed, or the message handled
\* last is a stop event or an error message of the server
ExchangeEnded ==
    \/ chat.settled \in {"sessionFailed", "sendFailed"}
    \/ /\ chat.last.sent \in ServerMessages
       /\ \/ chat.last.sent.responseType = "error"
          \/ /\ chat.last.sent.responseType = "answer-event"
             /\ chat.last.sent.event = "stop"

\* C31: a message is submitted only when chatState is idle, and the submit
\* sets it to sending; however the exchange ends (stop event, error message,
\* failed session creation, failed submission request), chatState is idle
\* again afterwards.
C31_InputIsReEnabled ==
    /\ [][chat'.sends = chat.sends + 1 =>
             /\ chat.state.chatState = "idle"
             /\ chat'.state.chatState = "sending"]_vars
    /\ ExchangeEnded ~> (chat.state.chatState = "idle")

\* the states an execution may end in: ClassificationFailed, a
\* streaming-success state, a streaming-failed state
TerminalStates ==
    {"ClassificationFailed", "StreamingSuccessFaq", "StreamingSuccessRag",
     "StreamingFailedFaq", "StreamingFailedRag"}

\* C32: every execution ends, in exactly one terminal state, and on the
\* way each stage is invoked at most once: the Classifier once, Retrieval at
\* most once and only for a query classified rag, Streaming at most once.
C32_TerminatesOnce ==
    /\ <>Ended
    /\ [](Ended =>
            /\ ctx["main"].state \in TerminalStates
            /\ Cardinality(visited \cap TerminalStates) = 1
            /\ Cardinality(InvokesOf("Classifier")) = 1)
    /\ [](/\ Cardinality(InvokesOf("Classifier")) <= 1
          /\ Cardinality(InvokesOf("Retrieval")) <= 1
          /\ Cardinality(InvokesOf("Streaming")) <= 1
          /\ InvokesOf("Retrieval") # {} =>
                /\ ClassifierReturned
                /\ ClassifierOutput.query_class = "rag")

\* C32 witness: a query classified rag has ended in StreamingSuccessRag
\* after one invocation of each of the three stages.
C32_Witness ==
    /\ Succeeded
    /\ ctx["main"].state = "StreamingSuccessRag"
    /\ \A f \in {"Classifier", "Retrieval", "Streaming"} :
          Cardinality(InvokesOf(f)) = 1

\* the statuses of a query after which the exchange is over
TerminalStatuses == {"completed", "failed"}

\* C33: once the status of a query is completed or failed, no message handed
\* to the message handler afterwards (a late or repeated start, stop,
\* fragment or error) changes the status or the response content of it.
C33_TerminalStatusIsAbsorbing ==
    [][\A q \in ChatQueryIds :
          ( /\ Handles_Message
            /\ HasQuery(chat.state, q)
            /\ chat.state.queries[q].status \in TerminalStatuses )
          => /\ HasQuery(chat'.state, q)
             /\ chat'.state.queries[q].status = chat.state.queries[q].status
             /\ chat'.state.queries[q].response.content =
                    chat.state.queries[q].response.content]_vars

\* C34: after any sequence of store actions, queryOrder lists no id twice
\* and the ids it lists are the keys of queries, also when addQuery has been
\* called twice with one query id.
C34_QueryOrderMatchesQueries ==
    LET order == chat.state.queryOrder
    IN  /\ \A i, j \in DOMAIN order : i # j => order[i] # order[j]
        /\ {order[i] : i \in DOMAIN order} =
               {q \in ChatQueryIds : HasQuery(chat.state, q)}

\* the store but for the records of the queries and the chat state
OutsideQueries(s) ==
    [k \in DOMAIN s \ {"queries", "chatState"} |-> s[k]]

\* C35: a message that carries the query id Q changes at most queries[Q] and
\* the chat state: every other record and every other member of the store
\* stay as they are; and a call of a per-query update action for an id the
\* store does not have leaves the store as it is: no record is made, queries
\* and queryOrder stay as they are.
C35_PerQueryIsolation ==
    [][ /\ Handles_Message =>
            /\ \A q \in ChatQueryIds :
                  q # QueryIdOf(chat'.last.message) =>
                      chat'.state.queries[q] = chat.state.queries[q]
            /\ OutsideQueries(chat'.state) = OutsideQueries(chat.state)
        /\ \A q \in ChatQueryIds :
              (UpdateCall(q) /\ ~HasQuery(chat.state, q)) =>
                  /\ chat'.state.queries = chat.state.queries
                  /\ chat'.state.queryOrder = chat.state.queryOrder
                  /\ chat'.state = chat.state ]_vars

\* C35 witness: q1 and q2 are in the store, three store actions were called
\* (two of them addQuery), the start event of q1 has set q1 to streaming
\* and q2 is as it was added.
C35_Witness ==
    /\ chat.storeCalls = MaxStoreCalls
    /\ chat.handled > 0
    /\ chat.last.message = [responseType |-> "answer-event", event |-> "start",
                            queryId |-> "q1"]
    /\ HasQuery(chat.state, "q1")
    /\ chat.state.queries["q1"].status = "streaming"
    /\ chat.state.queries["q2"] = NewQuery("hi", "q2")
    /\ chat.state.queryOrder = <<"q2", "q1">>

\* the step posts a message to the send API
Posts == Len(chat'.posts) = Len(chat.posts) + 1
PostedTo == chat'.posts[Len(chat'.posts)]

\* C36: a message is posted with a session id that is not null: the session
\* id the client has, if it has one, and otherwise the id returned by the
\* session creation that sendMessage made first; when the creation of the
\* session fails, nothing is posted.
C36_PostsToTheSession ==
    [][ /\ Posts =>
            /\ PostedTo # Null
            /\ chat.sessionId # Null => PostedTo = chat.sessionId
            /\ chat.sessionId = Null =>
                  chat'.sessions = Append(chat.sessions, PostedTo)
        /\ (chat.call = "createSession" /\ chat'.settled = "sessionFailed") =>
            /\ chat'.posts = chat.posts
            /\ chat'.call = "none" ]_vars

\* the sockets the hook has built that are not closed: connecting or open
LiveSockets ==
    {c \in ConnIds : /\ connections[c].client = "hook"
                     /\ connections[c].st \in {"handshake", "attach", "open"}}

\* C37: the client holds at most one live WebSocket at a time, and every
\* socket it builds is for a session id that is not null: when the session
\* id changes or reconnect() is called, the socket of the session before is
\* closed by the time the new socket exists.
C37_OneLiveSocket ==
    /\ Cardinality(LiveSockets) <= 1
    /\ \A c \in ConnIds :
          connections[c].client = "hook" => connections[c].sessionId # Null

\* the step is handleClose for the close event of the socket c
ClosesSocket(c) ==
    /\ connections[c].client = "hook"
    /\ connections[c].notified # "close"
    /\ connections'[c].notified = "close"

\* C38: the close event of a socket of an earlier session leaves the newer
\* session alone: when the hook has built a socket for a newer session since,
\* handleClose neither clears the session id nor sets the connection state
\* to closed.
C38_CloseOfEarlierSocket ==
    [][\A c \in ConnIds :
          ( /\ ClosesSocket(c)
            /\ hook.ws # NoConnection
            /\ hook.ws # c
            /\ hook.sessionId # connections[c].sessionId )
          => /\ hook'.sessionId = hook.sessionId
             /\ hook'.ws = hook.ws
             /\ hook'.connectionState = hook.connectionState]_vars

====
